---- MODULE Spec2Model ----
(***************************************************************************)
(* ARMS trend-following setup detector (src/core/setup_detector.py).       *)
(*                                                                         *)
(* A SetupDetector instance keeps self.setups, self.filtered_by_di_h4 and  *)
(* self.be_activated.  detect_all_setups scans the candles of a date range *)
(* once; on an accepted entry _process_entry calls simulate_trade, which   *)
(* scans forward from the entry candle for the first exit.  One action of  *)
(* this module is one iteration of one of the two for-loops, or the start  *)
(* or the return of detect_all_setups.                                     *)
(*                                                                         *)
(* Numbers.  A price is an integer count of millionths of the quote        *)
(* currency (1.100433 is 1100433).  With pip_factor = 10000 one pip is 100 *)
(* price units.  A pips value (the 'pips' field, rounded to one decimal by *)
(* the code) is an integer count of tenths of a pip (-20.0 is -200).       *)
(* Indices are 0-based as in the source.                                   *)
(***************************************************************************)
EXTENDS Integers, Sequences, FiniteSets, TLC

VARIABLES
    df,                     \* the candle series handed to detect_all_setups
    df_htf,                 \* the auxiliary H4 series, or None
    use_di_h4_filter,       \* self.use_di_h4_filter
    use_be_atr,             \* self.use_be_atr
    use_tp_atr,             \* self.use_tp_atr
    tp_atr_multiplier,      \* self.tp_atr_multiplier, in tenths
    setups,                 \* self.setups
    filtered_by_di_h4,      \* self.filtered_by_di_h4
    be_activated,           \* self.be_activated
    pc,                     \* "idle" | "scan" (detect_all_setups loop) | "sim" (simulate_trade loop)
    analysis_df,            \* detect_all_setups: analysis_df
    i,                      \* detect_all_setups: loop index
    last_cross_direction,   \* detect_all_setups: "None" | "LONG" | "SHORT"
    separation_achieved,    \* detect_all_setups
    skip_until_idx,         \* detect_all_setups
    entry_idx,              \* simulate_trade: entry_idx
    direction,              \* simulate_trade: direction
    entry_price,            \* simulate_trade: entry_price
    sim_i,                  \* simulate_trade: loop index i
    retroceso_profundo,     \* simulate_trade: deep-retracement flag
    cross_idx,              \* history: index at which last_cross_direction was last set (-1: none)
    trades,                 \* history: one entry per _process_entry call of the current run
    run,                    \* history: counters and rejected indices of the current run
    history                 \* history: one entry per detect_all_setups call that returned

vars == <<df, df_htf, use_di_h4_filter, use_be_atr, use_tp_atr,
          tp_atr_multiplier, setups, filtered_by_di_h4,
          be_activated, pc, analysis_df, i, last_cross_direction,
          separation_achieved, skip_until_idx, entry_idx, direction,
          entry_price, sim_i, retroceso_profundo, cross_idx, trades, run,
          history>>

----------------------------------------------------------------------------
(* Bounds of the model *)

\* longest candle series
MaxLen == 5
\* detect_all_setups calls made on one detector instance
MaxRuns == 2
\* longest candle series of SpecConfig and SpecTp
MaxLenConfig == 4

----------------------------------------------------------------------------
(* Program constants *)

\* config.get_pip_factor for a four-decimal pair (config.SYMBOL = "EURUSD")
pip_factor == 10000
\* config.get_symbol_info: decimals of a four-decimal pair
decimals == 4
\* config.EMA_CROSS_MIN_SEPARATION
min_separation_pips == 3
\* config.STOP_LOSS_PIPS
stop_loss_pips == 20
\* SetupDetector.__init__ default di_h4_min_diff
di_h4_min_diff == 3
\* SetupDetector.__init__ default be_atr_multiplier = 1.1, in tenths
be_atr_multiplier_tenths == 11
\* SetupDetector.__init__ default tp_atr_multiplier = 4.5, in tenths
tp_atr_multiplier_tenths == 45

None == "None"

----------------------------------------------------------------------------
(* Arithmetic *)

Abs(x) == IF x < 0 THEN -x ELSE x

\* floor(num / den) for den > 0 (\div of TLA+ is floor division)
FloorDiv(num, den) == num \div den

\* Python round(): the nearest integer to num/den (den > 0), ties to even
RoundHalfEven(num, den) ==
    LET q == FloorDiv(num, den)
        r == num - q * den
    IN  IF 2 * r < den THEN q
        ELSE IF 2 * r > den THEN q + 1
        ELSE IF q % 2 = 0 THEN q ELSE q + 1

\* 10^n
RECURSIVE Pow10(_)
Pow10(n) == IF n = 0 THEN 1 ELSE 10 * Pow10(n - 1)

\* pips / self.pip_factor as a price difference (price units are 10^-6)
PipsToPrice(pips) == (pips * Pow10(6)) \div pip_factor

\* round(price_diff * self.pip_factor, 1), in tenths of a pip
RoundPips(price_diff) == RoundHalfEven(price_diff * pip_factor * 10, Pow10(6))

\* round(price, self.symbol_info['decimals']), in price units
RoundPrice(price) == RoundHalfEven(price, Pow10(6 - decimals)) * Pow10(6 - decimals)

----------------------------------------------------------------------------
(* Series *)

\* len(df) of a series indexed 0 .. len-1
DfLen(d) == Cardinality(DOMAIN d)

\* df[mask].copy().reset_index(drop=True) with
\* mask = (df['datetime'] >= start_date) & (df['datetime'] <= end_date)
SelectRange(d, start_date, end_date) ==
    LET keep == {k \in DOMAIN d : d[k].datetime >= start_date /\ d[k].datetime <= end_date}
        Nth(n) == CHOOSE k \in keep : Cardinality({x \in keep : x < k}) = n
    IN  [n \in 0 .. Cardinality(keep) - 1 |-> d[Nth(n)]]

----------------------------------------------------------------------------
(* SetupDetector: the per-candle predicates *)

\* detect_ema_cross with the previous candle compared strictly
detect_ema_cross_strict(d, idx) ==
    IF idx = 0 THEN None
    ELSE IF d[idx - 1].ema20 < d[idx - 1].ema50 /\ d[idx].ema20 > d[idx].ema50 THEN "LONG"
    ELSE IF d[idx - 1].ema20 > d[idx - 1].ema50 /\ d[idx].ema20 < d[idx].ema50 THEN "SHORT"
    ELSE None

\* detect_ema_cross(df, idx)
detect_ema_cross(d, idx) ==
    IF idx = 0 THEN None
    ELSE IF d[idx - 1].ema20 <= d[idx - 1].ema50 /\ d[idx].ema20 > d[idx].ema50 THEN "LONG"
    ELSE IF d[idx - 1].ema20 >= d[idx - 1].ema50 /\ d[idx].ema20 < d[idx].ema50 THEN "SHORT"
    ELSE None

\* check_separation(candle): abs(ema20 - ema50) * pip_factor >= min_separation_pips
check_separation(candle) ==
    Abs(candle.ema20 - candle.ema50) * pip_factor >= min_separation_pips * Pow10(6)

\* check_ema_touch without the lower end of the range
check_ema_touch_high_only(candle) ==
    candle.ema20 <= candle.high

\* check_ema_touch(candle)
check_ema_touch(candle) ==
    candle.low <= candle.ema20 /\ candle.ema20 <= candle.high

\* check_di_h4_filter that blocks when no H4 candle is old enough
check_di_h4_filter_fail_closed(htf, entry_datetime, dir) ==
    IF htf.is_none \/ ~use_di_h4_filter THEN TRUE
    ELSE LET mask == {k \in 1 .. Len(htf.rows) : htf.rows[k].datetime <= entry_datetime}
         IN  IF mask = {} THEN FALSE
             ELSE LET h4_candle == htf.rows[CHOOSE k \in mask : \A x \in mask : x <= k]
                  IN  IF dir = "LONG"
                      THEN h4_candle.plus_di - h4_candle.minus_di >= di_h4_min_diff
                      ELSE h4_candle.minus_di - h4_candle.plus_di >= di_h4_min_diff

\* check_di_h4_filter deciding from the last H4 candle of the series
check_di_h4_filter_latest_row(htf, entry_datetime, dir) ==
    IF htf.is_none \/ ~use_di_h4_filter THEN TRUE
    ELSE LET mask == {k \in 1 .. Len(htf.rows) : htf.rows[k].datetime <= entry_datetime}
         IN  IF mask = {} THEN TRUE
             ELSE LET h4_candle == htf.rows[Len(htf.rows)]
                  IN  IF dir = "LONG"
                      THEN h4_candle.plus_di - h4_candle.minus_di >= di_h4_min_diff
                      ELSE h4_candle.minus_di - h4_candle.plus_di >= di_h4_min_diff

\* check_di_h4_filter(df_htf, entry_datetime, direction)
check_di_h4_filter(htf, entry_datetime, dir) ==
    IF htf.is_none \/ ~use_di_h4_filter THEN TRUE
    ELSE LET mask == {k \in 1 .. Len(htf.rows) : htf.rows[k].datetime <= entry_datetime}
         IN  IF mask = {} THEN TRUE
             ELSE LET h4_candle == htf.rows[CHOOSE k \in mask : \A x \in mask : x <= k]
                  IN  IF dir = "LONG"
                      THEN h4_candle.plus_di - h4_candle.minus_di >= di_h4_min_diff
                      ELSE h4_candle.minus_di - h4_candle.plus_di >= di_h4_min_diff

----------------------------------------------------------------------------
(* simulate_trade: one candle of the forward loop *)

\* sl_price
sl_price_of(dir, eprice) ==
    IF dir = "LONG" THEN eprice - PipsToPrice(stop_loss_pips)
    ELSE eprice + PipsToPrice(stop_loss_pips)

\* the stop-loss test of candle idx
sl_hit(candle, dir, eprice) ==
    IF dir = "LONG" THEN candle.low <= sl_price_of(dir, eprice)
    ELSE candle.high >= sl_price_of(dir, eprice)

\* atr_valid without the guard on the volatility value
atr_valid_unguarded(candle) == TRUE

\* atr_val > 0 and not np.isnan(atr_val)
atr_valid(candle) == ~candle.atr_nan /\ candle.atr > 0

\* be_checked that lets the entry candle in
be_checked_from_entry(candle, idx, eidx) == use_be_atr /\ idx >= eidx /\ atr_valid(candle)

\* whether the break-even block is entered on candle idx
be_checked(candle, idx, eidx) == use_be_atr /\ idx > eidx /\ atr_valid(candle)

\* retroceso >= self.be_atr_multiplier, retroceso = adverse excursion / atr_val
deep_retracement(candle, dir, eprice) ==
    IF dir = "LONG"
    THEN (eprice - candle.low) * 10 >= be_atr_multiplier_tenths * candle.atr
    ELSE (candle.high - eprice) * 10 >= be_atr_multiplier_tenths * candle.atr

\* retroceso_profundo after candle idx
flag_after(candle, idx, eidx, dir, eprice, flag) ==
    IF be_checked(candle, idx, eidx)
    THEN flag \/ deep_retracement(candle, dir, eprice)
    ELSE flag

\* be_hit that tests the entry candle as well
be_hit_on_entry(candle, idx, eidx, dir, eprice, flag) ==
    /\ use_be_atr /\ atr_valid(candle)
    /\ flag \/ deep_retracement(candle, dir, eprice)
    /\ IF dir = "LONG" THEN candle.high >= eprice ELSE candle.low <= eprice

\* the break-even test of candle idx
be_hit(candle, idx, eidx, dir, eprice, flag) ==
    /\ be_checked(candle, idx, eidx)
    /\ flag_after(candle, idx, eidx, dir, eprice, flag)
    /\ IF dir = "LONG" THEN candle.high >= eprice ELSE candle.low <= eprice

Opposite(dir) == IF dir = "LONG" THEN "SHORT" ELSE "LONG"

\* cross_hit closing the trade on a cross of either direction
cross_hit_any_cross(d, idx, eidx, dir) ==
    idx > eidx /\ detect_ema_cross(d, idx) # None

\* the reversal test of candle idx
cross_hit(d, idx, eidx, dir) ==
    idx > eidx /\ detect_ema_cross(d, idx) = Opposite(dir)

\* a favourable excursion of tp_atr_multiplier times the volatility value
tp_reached(candle, dir, eprice) ==
    /\ atr_valid(candle)
    /\ IF dir = "LONG"
       THEN (candle.high - eprice) * 10 >= tp_atr_multiplier * candle.atr
       ELSE (eprice - candle.low) * 10 >= tp_atr_multiplier * candle.atr

\* exit_type_at with a volatility target wired in when use_tp_atr is set,
\* closing the trade through the break-even branch
exit_type_at_tp_wired(d, idx, eidx, dir, eprice, flag) ==
    IF sl_hit(d[idx], dir, eprice) THEN "SL"
    ELSE IF be_hit(d[idx], idx, eidx, dir, eprice, flag) THEN "BE"
    ELSE IF use_tp_atr /\ idx > eidx /\ tp_reached(d[idx], dir, eprice) THEN "BE"
    ELSE IF cross_hit(d, idx, eidx, dir) THEN "CROSS"
    ELSE "NONE"

\* exit_type_at with the break-even test moved ahead of the stop-loss test
exit_type_at_be_first(d, idx, eidx, dir, eprice, flag) ==
    IF be_hit(d[idx], idx, eidx, dir, eprice, flag) THEN "BE"
    ELSE IF sl_hit(d[idx], dir, eprice) THEN "SL"
    ELSE IF cross_hit(d, idx, eidx, dir) THEN "CROSS"
    ELSE "NONE"

\* the exit rule that fires on candle idx, in the order the loop body tests them
exit_type_at(d, idx, eidx, dir, eprice, flag) ==
    IF sl_hit(d[idx], dir, eprice) THEN "SL"
    ELSE IF be_hit(d[idx], idx, eidx, dir, eprice, flag) THEN "BE"
    ELSE IF cross_hit(d, idx, eidx, dir) THEN "CROSS"
    ELSE "NONE"

\* win_or_loss labelling a move of zero a win
win_or_loss_zero_wins(price_diff) == IF price_diff * pip_factor >= 0 THEN "WIN" ELSE "LOSS"

\* 'WIN' if pips > 0 else 'LOSS' (decided on the unrounded pips)
win_or_loss(price_diff) == IF price_diff * pip_factor > 0 THEN "WIN" ELSE "LOSS"

\* sl_result with the SHORT pips computed with the LONG formula
sl_result_long_formula(d, idx, eidx, dir, eprice) ==
    [outcome |-> "LOSS", exit_date |-> d[idx].datetime,
     exit_price |-> sl_price_of(dir, eprice), exit_idx |-> idx, exit_type |-> "SL",
     exit_cross_direction |-> None,
     pips |-> RoundPips(sl_price_of(dir, eprice) - eprice),
     candles_held |-> idx - eidx, exit_reason |-> "Stop Loss"]

\* the dict returned on a stop-loss
sl_result(d, idx, eidx, dir, eprice) ==
    [outcome |-> "LOSS", exit_date |-> d[idx].datetime,
     exit_price |-> sl_price_of(dir, eprice), exit_idx |-> idx, exit_type |-> "SL",
     exit_cross_direction |-> None,
     pips |-> IF dir = "LONG" THEN RoundPips(sl_price_of(dir, eprice) - eprice)
              ELSE RoundPips(eprice - sl_price_of(dir, eprice)),
     candles_held |-> idx - eidx, exit_reason |-> "Stop Loss"]

\* the dict returned on a break-even
be_result(d, idx, eidx, dir, eprice) ==
    [outcome |-> "BE", exit_date |-> d[idx].datetime,
     exit_price |-> eprice, exit_idx |-> idx, exit_type |-> "BE",
     exit_cross_direction |-> None,
     pips |-> 0, candles_held |-> idx - eidx, exit_reason |-> "Break Even ATR"]

\* signed_diff with the LONG formula for both directions
signed_diff_long_only(dir, eprice, exit_price) ==
    exit_price - eprice

\* signed price difference of a close at exit_price
signed_diff(dir, eprice, exit_price) ==
    IF dir = "LONG" THEN exit_price - eprice ELSE eprice - exit_price

\* the dict returned on an opposite cross
cross_result(d, idx, eidx, dir, eprice) ==
    [outcome |-> win_or_loss(signed_diff(dir, eprice, d[idx].close)),
     exit_date |-> d[idx].datetime,
     exit_price |-> d[idx].close, exit_idx |-> idx, exit_type |-> "CROSS",
     exit_cross_direction |-> Opposite(dir),
     pips |-> RoundPips(signed_diff(dir, eprice, d[idx].close)),
     candles_held |-> idx - eidx, exit_reason |-> "EMA Cross Reversal"]

\* eod_result reporting the entry candle as the exit index
eod_result_exit_at_entry(d, eidx, dir, eprice) ==
    LET last_candle == d[DfLen(d) - 1]
    IN  [outcome |-> win_or_loss(signed_diff(dir, eprice, last_candle.close)),
         exit_date |-> last_candle.datetime,
         exit_price |-> last_candle.close, exit_idx |-> eidx,
         exit_type |-> "EOD", exit_cross_direction |-> None,
         pips |-> RoundPips(signed_diff(dir, eprice, last_candle.close)),
         candles_held |-> DfLen(d) - eidx, exit_reason |-> "End of Data"]

\* the dict returned when the loop runs off the end of the series
eod_result(d, eidx, dir, eprice) ==
    LET last_candle == d[DfLen(d) - 1]
    IN  [outcome |-> win_or_loss(signed_diff(dir, eprice, last_candle.close)),
         exit_date |-> last_candle.datetime,
         exit_price |-> last_candle.close, exit_idx |-> DfLen(d) - 1,
         exit_type |-> "EOD", exit_cross_direction |-> None,
         pips |-> RoundPips(signed_diff(dir, eprice, last_candle.close)),
         candles_held |-> DfLen(d) - eidx, exit_reason |-> "End of Data"]

\* setup_record numbering the setups from 0
setup_record_zero_based(stored, candle, dir, trade_result) ==
    [setup_id |-> Len(stored),
     entry_date |-> candle.datetime,
     direction |-> dir,
     entry_price |-> RoundPrice(candle.ema20),
     sl_price |-> RoundPrice(sl_price_of(dir, candle.ema20)),
     exit_date |-> trade_result.exit_date,
     exit_price |-> RoundPrice(trade_result.exit_price),
     exit_reason |-> trade_result.exit_reason,
     outcome |-> trade_result.outcome,
     pips |-> trade_result.pips,
     candles_held |-> trade_result.candles_held]

\* _process_entry: the setup dict stored in self.setups
setup_record(stored, candle, dir, trade_result) ==
    [setup_id |-> Len(stored) + 1,
     entry_date |-> candle.datetime,
     direction |-> dir,
     entry_price |-> RoundPrice(candle.ema20),
     sl_price |-> RoundPrice(sl_price_of(dir, candle.ema20)),
     exit_date |-> trade_result.exit_date,
     exit_price |-> RoundPrice(trade_result.exit_price),
     exit_reason |-> trade_result.exit_reason,
     outcome |-> trade_result.outcome,
     pips |-> trade_result.pips,
     candles_held |-> trade_result.candles_held]

\* direction_after_exit with the stop-loss and break-even exits keeping the direction
direction_after_exit_keep(trade_result, lcd) ==
    IF trade_result.exit_type = "CROSS" THEN trade_result.exit_cross_direction
    ELSE lcd

\* direction_after_exit with the reversal exit resetting like a stop-loss
direction_after_exit_reset(trade_result, lcd) ==
    IF trade_result.exit_type \in {"SL", "BE", "CROSS"} THEN None
    ELSE lcd

\* detect_all_setups: last_cross_direction after the exit of a trade
direction_after_exit(trade_result, lcd) ==
    IF trade_result.exit_type \in {"SL", "BE"} THEN None
    ELSE IF trade_result.exit_type = "CROSS" THEN trade_result.exit_cross_direction
    ELSE lcd

\* skip_after_exit without the skip
skip_after_exit_none(trade_result) == 0

\* skip_after_exit stopping one candle short of the exit candle
skip_after_exit_before_exit(trade_result) == trade_result.exit_idx - 1

\* detect_all_setups: skip_until_idx after the exit of a trade
skip_after_exit(trade_result) == trade_result.exit_idx

\* detect_all_setups: separation_achieved after the exit of a trade
separation_after_exit(trade_result, sep) ==
    IF trade_result.exit_type \in {"SL", "BE", "CROSS"} THEN FALSE ELSE sep

----------------------------------------------------------------------------
(* get_executive_summary: the statistics it displays *)

\* the positions of the stored setups with the outcome
WithOutcome(stored, outcome) == {n \in 1 .. Len(stored) : stored[n].outcome = outcome}

\* df[...]['pips'].sum() over the positions in S, in tenths of a pip
RECURSIVE SumPips(_, _)
SumPips(stored, S) ==
    IF S = {} THEN 0
    ELSE LET n == CHOOSE x \in S : TRUE
         IN  stored[n].pips + SumPips(stored, S \ {n})

\* a quotient num / den kept exact
Ratio(num, den) == [num |-> num, den |-> den]

\* get_executive_summary: nothing is computed when self.setups is empty (lines
\* 469-471: a message is printed and the method returns), otherwise the
\* displayed values
get_executive_summary(stored) ==
    IF stored = <<>> THEN [computed |-> FALSE]
    ELSE LET total_setups == Len(stored)
             wins == Cardinality(WithOutcome(stored, "WIN"))
             losses == Cardinality(WithOutcome(stored, "LOSS"))
             be_count == Cardinality(WithOutcome(stored, "BE"))
         IN  [computed |-> TRUE,
              total_setups |-> total_setups,
              wins |-> wins,
              losses |-> losses,
              be_count |-> be_count,
              win_rate |-> IF total_setups > 0 THEN Ratio(wins * 100, total_setups)
                           ELSE Ratio(0, 1),
              total_pips |-> SumPips(stored, 1 .. total_setups),
              avg_pips |-> Ratio(SumPips(stored, 1 .. total_setups), total_setups),
              avg_winner |-> IF wins > 0
                             THEN Ratio(SumPips(stored, WithOutcome(stored, "WIN")), wins)
                             ELSE Ratio(0, 1),
              avg_loser |-> IF losses > 0
                            THEN Ratio(SumPips(stored, WithOutcome(stored, "LOSS")), losses)
                            ELSE Ratio(0, 1)]

----------------------------------------------------------------------------
(* Inputs *)

\* a price at an offset (in price units) from 1.100000
P(x) == 1100000 + x

Shape(e20, e50, lo, hi, cl, atr, nan) ==
    [ema20 |-> P(e20), ema50 |-> P(e50), low |-> P(lo), high |-> P(hi),
     close |-> P(cl), atr |-> atr, atr_nan |-> nan]

\* The candles a series is built from (offsets in price units, 100 = 1 pip;
\* the slow average is 1.100000 throughout):
\*   1  equal averages, a 3-pip bar around them;
\*   2  fast 4.33 pips above, the bar on it, closing 4.33 pips below the slow;
\*   3  fast 4.33 pips below, the bar on it, closing 5 pips above the slow, atr 0;
\*   4  fast 5.2 pips above, the bar clear of it, atr undefined;
\*   5  fast 3.1 pips above (just over the separation threshold), a 50-pip bar;
\*   6  fast 2 pips below (under the threshold), a 50-pip bar.
Shapes ==
    { Shape(0, 0, -150, 150, 17, 300, FALSE),
      Shape(433, 0, -500, 600, -433, 300, FALSE),
      Shape(-433, 0, -600, 600, 500, 0, FALSE),
      Shape(520, 0, 700, 900, 817, 0, TRUE),
      Shape(310, 0, -2500, 2500, 1004, 300, FALSE),
      Shape(-200, 0, -2500, 2500, -1004, 300, FALSE) }

\* a candle like the second of Shapes (fast 4.33 pips above, the bar on it)
\* that closes 0.03 pip above its fast average
NearShape == Shape(433, 0, -500, 600, 436, 300, FALSE)

\* the candles of SpecNear
ShapesNear == Shapes \cup {NearShape}

\* candle k of a series carries the timestamp k + 1
WithTime(shape, k) ==
    [datetime |-> k + 1, ema20 |-> shape.ema20, ema50 |-> shape.ema50,
     low |-> shape.low, high |-> shape.high, close |-> shape.close,
     atr |-> shape.atr, atr_nan |-> shape.atr_nan]

\* the series of n candles with the shapes f[0] .. f[n-1]
SeriesOf(f, n) == [k \in 0 .. n - 1 |-> WithTime(f[k], k)]

\* df_htf: None, or H4 rows sorted by datetime
HtfNone == [is_none |-> TRUE, rows |-> <<>>]
HtfRows == [is_none |-> FALSE,
            rows |-> << [datetime |-> 4, plus_di |-> 23, minus_di |-> 20],
                        [datetime |-> 5, plus_di |-> 15, minus_di |-> 20] >>]

\* (use_di_h4_filter, df_htf) as main.py pairs them: no H4 series when the
\* filter is off
FilterInputs == {<<FALSE, HtfNone>>, <<TRUE, HtfRows>>}

\* df_htf whose only row is later than every candle and confirms no direction
HtfLate == [is_none |-> FALSE,
            rows |-> << [datetime |-> MaxLen + 4, plus_di |-> 20, minus_di |-> 20] >>]

\* every df_htf argument
HtfInputs == {HtfNone, HtfRows, HtfLate}

\* (use_tp_atr, tp_atr_multiplier) of a second detector: each differs from the
\* defaults (FALSE, 4.5) in one or both options; a multiplier of 0.2 puts the
\* target within the reach of the candles of Shapes
TpInputs == {<<TRUE, tp_atr_multiplier_tenths>>, <<TRUE, 2>>, <<FALSE, 2>>}

\* start_date and end_date of a call: the whole series, or a range before it
StartDates == {1}
EndDates == {0, MaxLen}

NoRun == [start_date |-> 0, end_date |-> 0, rejections |-> 0, be_exits |-> 0,
          setups_before |-> 0, rejected_at |-> <<>>]

----------------------------------------------------------------------------
(* State machine *)

\* SetupDetector.__init__ with the reserved options at their defaults, before
\* any call
Constructed ==
    /\ use_tp_atr = FALSE
    /\ tp_atr_multiplier = tp_atr_multiplier_tenths
    /\ setups = <<>>
    /\ filtered_by_di_h4 = 0
    /\ be_activated = 0
    /\ pc = "idle"
    /\ analysis_df = <<>>
    /\ i = 0
    /\ last_cross_direction = None
    /\ separation_achieved = FALSE
    /\ skip_until_idx = 0
    /\ entry_idx = 0
    /\ direction = None
    /\ entry_price = 0
    /\ sim_i = 0
    /\ retroceso_profundo = FALSE
    /\ cross_idx = -1
    /\ trades = <<>>
    /\ run = NoRun
    /\ history = <<>>

Init ==
    /\ \E n \in 1 .. MaxLen : \E f \in [0 .. n - 1 -> Shapes] : df = SeriesOf(f, n)
    /\ \E fi \in FilterInputs : use_di_h4_filter = fi[1] /\ df_htf = fi[2]
    /\ use_be_atr \in BOOLEAN
    /\ Constructed

\* every pairing of use_di_h4_filter with a df_htf argument, on shorter series
InitConfig ==
    /\ \E n \in 1 .. MaxLenConfig :
         \E f \in [0 .. n - 1 -> Shapes] : df = SeriesOf(f, n)
    /\ use_di_h4_filter \in BOOLEAN
    /\ df_htf \in HtfInputs
    /\ use_be_atr \in BOOLEAN
    /\ Constructed

\* the inputs of Init, on shorter series
InitShort ==
    /\ \E n \in 1 .. MaxLenConfig :
         \E f \in [0 .. n - 1 -> Shapes] : df = SeriesOf(f, n)
    /\ \E fi \in FilterInputs : use_di_h4_filter = fi[1] /\ df_htf = fi[2]
    /\ use_be_atr \in BOOLEAN
    /\ Constructed

\* the inputs of InitShort, with the candles of ShapesNear
InitNear ==
    /\ \E n \in 1 .. MaxLenConfig :
         \E f \in [0 .. n - 1 -> ShapesNear] : df = SeriesOf(f, n)
    /\ \E fi \in FilterInputs : use_di_h4_filter = fi[1] /\ df_htf = fi[2]
    /\ use_be_atr \in BOOLEAN
    /\ Constructed

inputs == <<df, df_htf, use_di_h4_filter, use_be_atr, use_tp_atr, tp_atr_multiplier>>
self_vars == <<setups, filtered_by_di_h4, be_activated>>
scan_vars == <<last_cross_direction, separation_achieved, skip_until_idx, cross_idx>>
sim_vars == <<entry_idx, direction, entry_price, sim_i, retroceso_profundo>>

\* what a call that returns leaves in the history
Returned(returned_list) ==
    [start_date |-> run.start_date, end_date |-> run.end_date,
     returned |-> returned_list, setups_before |-> run.setups_before,
     filtered_by_di_h4 |-> filtered_by_di_h4, be_activated |-> be_activated,
     rejections |-> run.rejections, be_exits |-> run.be_exits,
     trades |-> trades,
     use_tp_atr |-> use_tp_atr, tp_atr_multiplier |-> tp_atr_multiplier]

\* empty_range_return handing back the stored setups
empty_range_return_stored(stored) == stored

\* line 330: what detect_all_setups returns when the range selects no candle
empty_range_return(stored) == <<>>

\* detect_all_setups, lines 322-337: select the range; return [] when it is empty
BeginRun ==
    /\ pc = "idle"
    /\ \E start_date \in StartDates, end_date \in EndDates :
         LET selected == SelectRange(df, start_date, end_date)
             this_run == [start_date |-> start_date, end_date |-> end_date,
                          rejections |-> 0, be_exits |-> 0,
                          setups_before |-> Len(setups), rejected_at |-> <<>>]
         IN  /\ analysis_df' = selected
             /\ run' = this_run
             /\ trades' = <<>>
             /\ IF DfLen(selected) = 0
                THEN /\ pc' = "idle"
                     /\ history' = Append(history,
                           [start_date |-> start_date, end_date |-> end_date,
                            returned |-> empty_range_return(setups),
                            setups_before |-> Len(setups),
                            filtered_by_di_h4 |-> filtered_by_di_h4,
                            be_activated |-> be_activated,
                            rejections |-> 0, be_exits |-> 0, trades |-> <<>>,
                            use_tp_atr |-> use_tp_atr,
                            tp_atr_multiplier |-> tp_atr_multiplier])
                     /\ UNCHANGED <<i, scan_vars>>
                ELSE /\ pc' = "scan"
                     /\ history' = history
                     /\ i' = 1
                     /\ last_cross_direction' = None
                     /\ separation_achieved' = FALSE
                     /\ skip_until_idx' = 0
                     /\ cross_idx' = -1
    /\ UNCHANGED <<inputs, self_vars, sim_vars>>

\* SetupDetector.__init__ again: a second detector that differs from the
\* first in the reserved options only, to be run on the same inputs
NewDetector ==
    /\ pc = "idle"
    /\ Len(history) = 1
    /\ run # NoRun
    /\ \E tp \in TpInputs : use_tp_atr' = tp[1] /\ tp_atr_multiplier' = tp[2]
    /\ setups' = <<>>
    /\ filtered_by_di_h4' = 0
    /\ be_activated' = 0
    /\ run' = NoRun
    /\ UNCHANGED <<df, df_htf, use_di_h4_filter, use_be_atr, pc, analysis_df, i,
                   scan_vars, sim_vars, trades, history>>

\* the first detect_all_setups call on a detector
StartRun ==
    /\ run = NoRun
    /\ BeginRun

\* a further detect_all_setups call on the same detector
RunAgain ==
    /\ history # <<>>
    /\ Len(history) < MaxRuns
    /\ BeginRun

InScan == pc = "scan" /\ i < DfLen(analysis_df)

\* ScanSkip moving the index to the end of the exited trade instead of to the
\* next index
ScanSkip_jumps_to_skip ==
    /\ InScan
    /\ i <= skip_until_idx
    /\ i' = skip_until_idx
    /\ UNCHANGED <<inputs, self_vars, pc, analysis_df, scan_vars, sim_vars,
                   trades, run, history>>

\* lines 343-344: the index lies within an exited trade
ScanSkip ==
    /\ InScan
    /\ i <= skip_until_idx
    /\ i' = i + 1
    /\ UNCHANGED <<inputs, self_vars, pc, analysis_df, scan_vars, sim_vars,
                   trades, run, history>>

\* ScanCross leaving separation_achieved as it is
ScanCross_keeps_separation ==
    /\ InScan
    /\ i > skip_until_idx
    /\ detect_ema_cross(analysis_df, i) # None
    /\ last_cross_direction' = detect_ema_cross(analysis_df, i)
    /\ cross_idx' = i
    /\ i' = i + 1
    /\ UNCHANGED <<inputs, self_vars, pc, analysis_df, separation_achieved,
                   skip_until_idx, sim_vars, trades, run, history>>

\* lines 347-354: a cross at i
ScanCross ==
    /\ InScan
    /\ i > skip_until_idx
    /\ detect_ema_cross(analysis_df, i) # None
    /\ last_cross_direction' = detect_ema_cross(analysis_df, i)
    /\ separation_achieved' = FALSE
    /\ cross_idx' = i
    /\ i' = i + 1
    /\ UNCHANGED <<inputs, self_vars, pc, analysis_df, skip_until_idx, sim_vars,
                   trades, run, history>>

\* separation_at evaluating the separation afresh on every candle
separation_at_not_sticky(candle, lcd, sep) ==
    lcd # None /\ check_separation(candle)

\* separation_achieved after lines 359-361 on candle i
separation_at(candle, lcd, sep) ==
    IF lcd # None /\ ~sep THEN check_separation(candle) ELSE sep

\* is_candidate without the touch test
is_candidate_no_touch(candle, lcd, sep) ==
    lcd # None /\ separation_at(candle, lcd, sep)

\* lines 357-367: whether candle i is an entry candidate
is_candidate(candle, lcd, sep) ==
    lcd # None /\ separation_at(candle, lcd, sep) /\ check_ema_touch(candle)

\* lines 357-367: no cross at i and no entry candidate
ScanWait ==
    /\ InScan
    /\ i > skip_until_idx
    /\ detect_ema_cross(analysis_df, i) = None
    /\ ~is_candidate(analysis_df[i], last_cross_direction, separation_achieved)
    /\ separation_achieved' =
         separation_at(analysis_df[i], last_cross_direction, separation_achieved)
    /\ i' = i + 1
    /\ UNCHANGED <<inputs, self_vars, pc, analysis_df, last_cross_direction,
                   skip_until_idx, cross_idx, sim_vars, trades, run, history>>

\* ScanFiltered with the rejection resetting the cross state like a stop-loss
ScanFiltered_resets ==
    /\ InScan
    /\ i > skip_until_idx
    /\ detect_ema_cross(analysis_df, i) = None
    /\ is_candidate(analysis_df[i], last_cross_direction, separation_achieved)
    /\ ~check_di_h4_filter(df_htf, analysis_df[i].datetime, last_cross_direction)
    /\ filtered_by_di_h4' = filtered_by_di_h4 + 1
    /\ last_cross_direction' = None
    /\ separation_achieved' = FALSE
    /\ run' = [run EXCEPT !.rejections = @ + 1, !.rejected_at = Append(@, i)]
    /\ i' = i + 1
    /\ UNCHANGED <<inputs, setups, be_activated, pc, analysis_df,
                   skip_until_idx, cross_idx, sim_vars, trades, history>>

\* lines 369-372: the candidate is rejected by the DI H4 filter
ScanFiltered ==
    /\ InScan
    /\ i > skip_until_idx
    /\ detect_ema_cross(analysis_df, i) = None
    /\ is_candidate(analysis_df[i], last_cross_direction, separation_achieved)
    /\ ~check_di_h4_filter(df_htf, analysis_df[i].datetime, last_cross_direction)
    /\ filtered_by_di_h4' = filtered_by_di_h4 + 1
    /\ separation_achieved' = TRUE
    /\ run' = [run EXCEPT !.rejections = @ + 1, !.rejected_at = Append(@, i)]
    /\ i' = i + 1
    /\ UNCHANGED <<inputs, setups, be_activated, pc, analysis_df,
                   last_cross_direction, skip_until_idx, cross_idx, sim_vars,
                   trades, history>>

\* lines 375, 415-418: the candidate is accepted; simulate_trade starts at i
ScanEntry ==
    /\ InScan
    /\ i > skip_until_idx
    /\ detect_ema_cross(analysis_df, i) = None
    /\ is_candidate(analysis_df[i], last_cross_direction, separation_achieved)
    /\ check_di_h4_filter(df_htf, analysis_df[i].datetime, last_cross_direction)
    /\ separation_achieved' = TRUE
    /\ pc' = "sim"
    /\ entry_idx' = i
    /\ direction' = last_cross_direction
    /\ entry_price' = analysis_df[i].ema20
    /\ sim_i' = i
    /\ retroceso_profundo' = FALSE
    /\ UNCHANGED <<inputs, self_vars, analysis_df, i, last_cross_direction,
                   skip_until_idx, cross_idx, trades, run, history>>

InSim == pc = "sim" /\ sim_i < DfLen(analysis_df)

ExitHere == exit_type_at(analysis_df, sim_i, entry_idx, direction, entry_price,
                         retroceso_profundo)

\* simulate_trade: no exit rule fires on candle sim_i
SimContinue ==
    /\ InSim
    /\ ExitHere = "NONE"
    /\ retroceso_profundo' = flag_after(analysis_df[sim_i], sim_i, entry_idx,
                                        direction, entry_price, retroceso_profundo)
    /\ sim_i' = sim_i + 1
    /\ UNCHANGED <<inputs, self_vars, pc, analysis_df, i, scan_vars, entry_idx,
                   direction, entry_price, trades, run, history>>

\* simulate_trade returns trade_result; _process_entry stores the setup (lines
\* 420-438); detect_all_setups handles the exit (lines 377-398) and goes on
\* with the next index
CloseTrade(trade_result, flag) ==
    /\ setups' = Append(setups, setup_record(setups, analysis_df[entry_idx],
                                             direction, trade_result))
    /\ skip_until_idx' = skip_after_exit(trade_result)
    /\ last_cross_direction' = direction_after_exit(trade_result, last_cross_direction)
    /\ separation_achieved' = separation_after_exit(trade_result, separation_achieved)
    /\ cross_idx' = IF trade_result.exit_type = "CROSS" THEN trade_result.exit_idx
                    ELSE cross_idx
    /\ trades' = Append(trades, [entry_idx |-> entry_idx, entry_price |-> entry_price,
                                 direction |-> direction, armed_at |-> cross_idx,
                                 flag |-> flag, result |-> trade_result])
    /\ pc' = "scan"
    /\ i' = i + 1
    /\ UNCHANGED <<inputs, filtered_by_di_h4, analysis_df, sim_vars, history>>

\* lines 182-207
SimExitSL ==
    /\ InSim
    /\ ExitHere = "SL"
    /\ CloseTrade(sl_result(analysis_df, sim_i, entry_idx, direction, entry_price),
                  retroceso_profundo)
    /\ UNCHANGED <<be_activated, run>>

\* lines 225-249
SimExitBE ==
    /\ InSim
    /\ ExitHere = "BE"
    /\ be_activated' = be_activated + 1
    /\ run' = [run EXCEPT !.be_exits = @ + 1]
    /\ CloseTrade(be_result(analysis_df, sim_i, entry_idx, direction, entry_price),
                  TRUE)

\* lines 252-286
SimExitCross ==
    /\ InSim
    /\ ExitHere = "CROSS"
    /\ CloseTrade(cross_result(analysis_df, sim_i, entry_idx, direction, entry_price),
                  flag_after(analysis_df[sim_i], sim_i, entry_idx, direction,
                             entry_price, retroceso_profundo))
    /\ UNCHANGED <<be_activated, run>>

\* lines 288-308
SimExitEOD ==
    /\ pc = "sim"
    /\ sim_i >= DfLen(analysis_df)
    /\ CloseTrade(eod_result(analysis_df, entry_idx, direction, entry_price),
                  retroceso_profundo)
    /\ UNCHANGED <<be_activated, run>>

\* lines 400-406: the loop is over; return self.setups
FinishRun ==
    /\ pc = "scan"
    /\ i >= DfLen(analysis_df)
    /\ pc' = "idle"
    /\ history' = Append(history, Returned(setups))
    /\ UNCHANGED <<inputs, self_vars, analysis_df, i, scan_vars, sim_vars, trades, run>>

Next ==
    \/ StartRun
    \/ ScanSkip
    \/ ScanCross
    \/ ScanWait
    \/ ScanFiltered
    \/ ScanEntry
    \/ SimContinue
    \/ SimExitSL
    \/ SimExitBE
    \/ SimExitCross
    \/ SimExitEOD
    \/ FinishRun

\* one detect_all_setups call on a fresh detector, as main.py makes it
Spec == Init /\ [][Next]_vars

NextRuns == Next \/ RunAgain

\* up to MaxRuns detect_all_setups calls on one detector
SpecRuns == Init /\ [][NextRuns]_vars

\* one call on a fresh detector of any filter configuration
SpecConfig == InitConfig /\ [][Next]_vars

NextTp == Next \/ NewDetector

\* one call on a detector with the default reserved options, then one call on
\* a second detector with other reserved options
SpecTp == InitShort /\ [][NextTp]_vars

\* one call on a fresh detector, over series that include a close within the
\* rounding of pips of the entry price
SpecNear == InitNear /\ [][Next]_vars

\* SpecLive: the call runs on: a step of the loops is taken whenever one is
\* possible (the program is sequential and never waits)
Fairness == WF_vars(Next)

\* one call on a fresh detector that runs on until it returns
SpecLive == InitShort /\ [][Next]_vars /\ Fairness

----------------------------------------------------------------------------
(* Properties *)

\* the conditions of the exit rules, as the specification words them
StopDistance == PipsToPrice(stop_loss_pips)

StopBreached(candle, dir, eprice) ==
    IF dir = "LONG" THEN candle.low <= eprice - StopDistance
    ELSE candle.high >= eprice + StopDistance

BullishFlip(d, idx) ==
    d[idx - 1].ema20 <= d[idx - 1].ema50 /\ d[idx].ema20 > d[idx].ema50

BearishFlip(d, idx) ==
    d[idx - 1].ema20 >= d[idx - 1].ema50 /\ d[idx].ema20 < d[idx].ema50

SeparationMet(candle) ==
    Abs(candle.ema20 - candle.ema50) >= PipsToPrice(min_separation_pips)

TouchesFast(candle) ==
    candle.low <= candle.ema20 /\ candle.ema20 <= candle.high

LastIdx == DfLen(analysis_df) - 1

\* the one call of Spec has returned, over a non-empty range
RunDone == pc = "idle" /\ Len(history) = 1 /\ DfLen(analysis_df) > 0

\* C1: in simulate_trade, a candle at or after the entry index on which the
\* stop-loss condition holds ends the trade as a stop-loss on that candle,
\* unless an earlier candle already ended it; the break-even and reversal
\* conditions holding on the same candle change nothing.
C1_StopLossFirst ==
    \A n \in 1 .. Len(trades) :
        \A j \in trades[n].entry_idx .. LastIdx :
            StopBreached(analysis_df[j], trades[n].direction, trades[n].entry_price)
            => \/ trades[n].result.exit_idx < j
               \/ /\ trades[n].result.exit_idx = j
                  /\ trades[n].result.exit_type = "SL"

\* C1 witness: a trade closed as a stop-loss on a candle on which the
\* break-even test and the reversal test would both have fired too.
C1_Witness ==
    \E n \in 1 .. Len(trades) :
        LET t == trades[n]
            j == t.result.exit_idx
        IN  /\ t.result.exit_type = "SL"
            /\ StopBreached(analysis_df[j], t.direction, t.entry_price)
            /\ be_hit(analysis_df[j], j, t.entry_idx, t.direction, t.entry_price, t.flag)
            /\ cross_hit(analysis_df, j, t.entry_idx, t.direction)

\* C2: after a stop-loss or break-even exit at index k, last_cross_direction
\* is None and separation_achieved is false until a cross is detected at an
\* index > k, and the next entry is armed by such a cross.
C2_ResetAfterStopOrBE ==
    /\ (/\ trades # <<>>
        /\ trades[Len(trades)].result.exit_type \in {"SL", "BE"}
        /\ cross_idx <= trades[Len(trades)].result.exit_idx)
       => (last_cross_direction = None /\ ~separation_achieved /\ pc # "sim")
    /\ \A n \in 1 .. Len(trades) - 1 :
         trades[n].result.exit_type \in {"SL", "BE"}
         => /\ trades[n + 1].armed_at > trades[n].result.exit_idx
            /\ trades[n + 1].entry_idx > trades[n + 1].armed_at
            /\ detect_ema_cross(analysis_df, trades[n + 1].armed_at)
                 = trades[n + 1].direction

\* C2 witness: a stop-loss exit followed by a second entry in the same run.
C2_Witness ==
    /\ Len(trades) >= 2
    /\ trades[1].result.exit_type = "SL"
    /\ trades[2].armed_at > trades[1].result.exit_idx

\* the first index after k at which a candidate of direction dir is accepted
\* when no cross is detected after k (LastIdx + 1 when there is none)
FirstEntryAfter(k, dir) ==
    LET Eligible(m) ==
            /\ \A x \in k + 1 .. m : detect_ema_cross(analysis_df, x) = None
            /\ \E x \in k + 1 .. m : SeparationMet(analysis_df[x])
            /\ TouchesFast(analysis_df[m])
            /\ check_di_h4_filter(df_htf, analysis_df[m].datetime, dir)
        all == {m \in k + 1 .. LastIdx : Eligible(m)}
    IN  IF all = {} THEN LastIdx + 1
        ELSE CHOOSE m \in all : \A x \in all : m <= x

\* C3: after a crossover-reversal exit at index k, last_cross_direction is the
\* direction of the reversing cross with separation_achieved false, and the
\* first candle after k that touches the fast average once the separation was
\* met after k (and that the filter admits) is entered in that direction with
\* no further cross detected.
C3_ReversalArmsNewDirection ==
    /\ (/\ trades # <<>>
        /\ trades[Len(trades)].result.exit_type = "CROSS"
        /\ cross_idx = trades[Len(trades)].result.exit_idx)
       => /\ last_cross_direction = Opposite(trades[Len(trades)].direction)
          /\ (pc = "scan" /\ i <= cross_idx + 1) => ~separation_achieved
    /\ RunDone =>
         \A n \in 1 .. Len(trades) :
            LET t == trades[n]
                m == FirstEntryAfter(t.result.exit_idx, Opposite(t.direction))
            IN  (t.result.exit_type = "CROSS" /\ m <= LastIdx)
                => /\ Len(trades) > n
                   /\ trades[n + 1].entry_idx = m
                   /\ trades[n + 1].direction = Opposite(t.direction)
                   /\ trades[n + 1].armed_at = t.result.exit_idx

\* C3 witness: the run has returned with a reversal exit at k and an entry in
\* the reversal direction at k + 1, armed by the reversing cross alone.
C3_Witness ==
    /\ RunDone
    /\ \E n \in 1 .. Len(trades) - 1 :
         /\ trades[n].result.exit_type = "CROSS"
         /\ trades[n + 1].armed_at = trades[n].result.exit_idx
         /\ trades[n + 1].entry_idx = trades[n].result.exit_idx + 1
         /\ trades[n + 1].direction = Opposite(trades[n].direction)

\* C4: two detect_all_setups calls over the same series, range and
\* configuration return identical lists, also on one detector instance.
C4_Idempotent ==
    \A a, b \in 1 .. Len(history) :
        (history[a].start_date = history[b].start_date
         /\ history[a].end_date = history[b].end_date)
        => history[a].returned = history[b].returned

\* C5: when a call returns, filtered_by_di_h4 and be_activated count the
\* rejections and the break-even exits of that call only.
C5_CountersScoped ==
    \A n \in 1 .. Len(history) :
        /\ history[n].filtered_by_di_h4 = history[n].rejections
        /\ history[n].be_activated = history[n].be_exits

\* C6: of two consecutive setups of one run the later is entered at an index
\* strictly greater than the exit index of the earlier (and at a later
\* timestamp than its exit), and no index up to the exit index of the last
\* trade is evaluated by the scan.
C6_OnePositionAtATime ==
    /\ \A n \in 1 .. Len(trades) - 1 :
         /\ trades[n + 1].entry_idx > trades[n].result.exit_idx
         /\ setups[n + 1].entry_date > setups[n].exit_date
    /\ (pc = "sim" /\ trades # <<>>) => entry_idx > trades[Len(trades)].result.exit_idx
    /\ (pc = "scan" /\ trades # <<>>) => skip_until_idx = trades[Len(trades)].result.exit_idx

\* C6 witness: a second trade entered on the candle right after the exit
\* candle of the first.
C6_Witness ==
    /\ Len(trades) >= 2
    /\ trades[2].entry_idx = trades[1].result.exit_idx + 1
    /\ trades[1].result.exit_idx > trades[1].entry_idx

\* C7: a stop-loss exit is a loss of exactly stop_loss_pips closed at the stop
\* price, for both directions and on every candle, the entry candle included.
C7_StopLossOutcome ==
    \A n \in 1 .. Len(trades) :
        LET t == trades[n]
        IN  t.result.exit_type = "SL"
            => /\ t.result.outcome = "LOSS"
               /\ t.result.pips = -(stop_loss_pips * 10)
               /\ t.result.exit_price =
                    (IF t.direction = "LONG" THEN t.entry_price - StopDistance
                     ELSE t.entry_price + StopDistance)
               /\ setups[n].outcome = "LOSS"
               /\ setups[n].pips = -(stop_loss_pips * 10)
               /\ setups[n].exit_price = setups[n].sl_price
               /\ setups[n].exit_reason = "Stop Loss"

\* C7 witness: a SHORT trade stopped out on its own entry candle.
C7_Witness ==
    \E n \in 1 .. Len(trades) :
        /\ trades[n].result.exit_type = "SL"
        /\ trades[n].direction = "SHORT"
        /\ trades[n].result.exit_idx = trades[n].entry_idx

\* (exit - entry) for LONG, (entry - exit) for SHORT, on the unrounded prices
SignedMove(t) ==
    IF t.direction = "LONG" THEN t.result.exit_price - t.entry_price
    ELSE t.entry_price - t.result.exit_price

\* C8 as stated: the pips of every setup equal the signed price move times
\* pip_factor (pips are held in tenths, prices in millionths).
C8_PipsExact ==
    \A n \in 1 .. Len(trades) :
        trades[n].result.pips * Pow10(6) = SignedMove(trades[n]) * pip_factor * 10

\* C8 amended: the pips of every setup are the signed price move times
\* pip_factor rounded to one decimal: a whole number of tenths within 0.05 pip
\* of it; the stored setup carries the same pips.
C8_PipsRounded ==
    \A n \in 1 .. Len(trades) :
        /\ 2 * Abs(trades[n].result.pips * Pow10(6)
                   - SignedMove(trades[n]) * pip_factor * 10) <= Pow10(6)
        /\ setups[n].pips = trades[n].result.pips

\* C8 witness: a SHORT trade and a LONG trade whose price move is not a whole
\* number of tenths of a pip.
C8_Witness ==
    /\ \E n \in 1 .. Len(trades) :
         /\ trades[n].direction = "SHORT"
         /\ trades[n].result.exit_type \in {"CROSS", "EOD"}
         /\ SignedMove(trades[n]) # 0
    /\ \E n \in 1 .. Len(trades) :
         /\ trades[n].direction = "LONG"
         /\ (SignedMove(trades[n]) * pip_factor * 10) % Pow10(6) # 0

\* the 5-candle scenario: candle 2 a bullish cross, candle 3 separated and
\* not touching, candle 4 touching and above the stop, candle 5 breaching the
\* stop of an entry at candle 4's fast average; no bearish cross in between
ScenarioC9(d) ==
    /\ DfLen(d) = 5
    /\ BullishFlip(d, 1)
    /\ d[2].ema20 > d[2].ema50 /\ SeparationMet(d[2]) /\ ~TouchesFast(d[2])
    /\ d[3].ema20 >= d[3].ema50 /\ TouchesFast(d[3])
    /\ ~StopBreached(d[3], "LONG", d[3].ema20)
    /\ StopBreached(d[4], "LONG", d[3].ema20)

\* C9: on the 5-candle scenario (with the directional filter admitting the
\* candidate) the run returns exactly one setup: LONG, entered at candle 4's
\* fast average, a stop-loss loss of 20.0 pips held for one candle.
C9_EndToEnd ==
    (/\ RunDone
     /\ ScenarioC9(analysis_df)
     /\ check_di_h4_filter(df_htf, analysis_df[3].datetime, "LONG"))
    => /\ Len(history[1].returned) = 1
       /\ Len(trades) = 1
       /\ trades[1].entry_idx = 3
       /\ trades[1].entry_price = analysis_df[3].ema20
       /\ history[1].returned[1].direction = "LONG"
       /\ history[1].returned[1].entry_price = RoundPrice(analysis_df[3].ema20)
       /\ history[1].returned[1].outcome = "LOSS"
       /\ history[1].returned[1].exit_reason = "Stop Loss"
       /\ history[1].returned[1].pips = -200
       /\ history[1].returned[1].candles_held = 1

\* C9 witness: the run over a scenario series has returned.
C9_Witness ==
    /\ RunDone
    /\ ScenarioC9(analysis_df)
    /\ check_di_h4_filter(df_htf, analysis_df[3].datetime, "LONG")
    /\ Len(setups) = 1

\* C10: detect_ema_cross reports no cross at index 0 and, at an index i > 0,
\* LONG exactly when fast[i-1] <= slow[i-1] and fast[i] > slow[i], SHORT
\* exactly when fast[i-1] >= slow[i-1] and fast[i] < slow[i], and otherwise
\* nothing; the scan records the direction it reports.
C10_CrossDetection ==
    /\ \A idx \in DOMAIN df :
         LET r == detect_ema_cross(df, idx)
         IN  /\ r \in {None, "LONG", "SHORT"}
             /\ idx = 0 => r = None
             /\ idx > 0 => /\ (r = "LONG" <=> BullishFlip(df, idx))
                           /\ (r = "SHORT" <=> BearishFlip(df, idx))
    /\ (pc = "scan" /\ cross_idx >= 1 /\ last_cross_direction # None)
       => /\ last_cross_direction = "LONG" <=> BullishFlip(analysis_df, cross_idx)
          /\ last_cross_direction = "SHORT" <=> BearishFlip(analysis_df, cross_idx)

\* C10 witness: the scan has recorded a LONG cross whose previous candle has
\* equal averages, in a series that also holds a bearish flip.
C10_Witness ==
    /\ pc = "scan"
    /\ cross_idx >= 1
    /\ trades = <<>>
    /\ last_cross_direction = "LONG"
    /\ analysis_df[cross_idx - 1].ema20 = analysis_df[cross_idx - 1].ema50
    /\ \E idx \in DOMAIN df : idx > 0 /\ detect_ema_cross(df, idx) = "SHORT"

\* the indices of the current run at which simulate_trade was started
EntryIndices ==
    {trades[n].entry_idx : n \in 1 .. Len(trades)}
        \cup (IF pc = "sim" THEN {entry_idx} ELSE {})

\* the indices of the current run at which the filter rejected a candidate
RejectedIndices == {run.rejected_at[n] : n \in 1 .. Len(run.rejected_at)}

\* the indices the scan has dealt with so far
Scanned(m) == m < i \/ (pc = "sim" /\ m = i)

\* C11, the step: a step that rejects a candidate (the rejection counter
\* changes) happens on a touching candle while a direction is recorded and
\* the separation is achieved; it adds exactly one to the counter, appends no
\* setup, and leaves last_cross_direction and separation_achieved (true) as
\* they are; the scan goes on with the next index.
C11_RejectionStep ==
    (filtered_by_di_h4' # filtered_by_di_h4)
    => /\ filtered_by_di_h4' = filtered_by_di_h4 + 1
       /\ setups' = setups
       /\ be_activated' = be_activated
       /\ last_cross_direction # None
       /\ last_cross_direction' = last_cross_direction
       /\ separation_at(analysis_df[i], last_cross_direction, separation_achieved)
       /\ separation_achieved'
       /\ TouchesFast(analysis_df[i])
       /\ pc = "scan" /\ pc' = "scan" /\ i' = i + 1

\* C11, afterwards: the first touching candle after a rejected one, with no
\* cross detected in between, is a candidate again (it is rejected too, or
\* entered), and no rejected index is an entry index.
C11_NextTouchIsCandidate ==
    \A r \in RejectedIndices :
        /\ r \notin EntryIndices
        /\ \A m \in r + 1 .. LastIdx :
             (/\ Scanned(m)
              /\ \A x \in r + 1 .. m : detect_ema_cross(analysis_df, x) = None
              /\ TouchesFast(analysis_df[m])
              /\ \A x \in r + 1 .. m - 1 : ~TouchesFast(analysis_df[x]))
             => m \in RejectedIndices \cup EntryIndices

\* C11: a rejection by the directional filter changes nothing but the
\* rejection counter (plus one), and the next touching candle under the same
\* cross is proposed as a candidate again.
C11_RejectionKeepsState ==
    [](C11_NextTouchIsCandidate) /\ [][C11_RejectionStep]_vars

\* C11 witness: a candidate was rejected and the next candle, touching and
\* with no cross, was entered in the same direction.
C11_Witness ==
    \E r \in RejectedIndices :
        /\ r + 1 \in EntryIndices
        /\ detect_ema_cross(analysis_df, r + 1) = None
        /\ filtered_by_di_h4 = 1

\* no row of the auxiliary series is at or before the timestamp
NoRowUpTo(htf, t) == \A k \in 1 .. Len(htf.rows) : htf.rows[k].datetime > t

\* the filter has to let every candidate at timestamp t through
FailOpen(t) == ~use_di_h4_filter \/ df_htf.is_none \/ NoRowUpTo(df_htf, t)

\* C12: check_di_h4_filter permits the candidate, for either direction,
\* whenever the filter is disabled, df_htf is None or df_htf has no row with
\* datetime <= the candidate's; so the scan rejects no candidate then.
C12_FilterFailsOpen ==
    /\ \A t \in 0 .. MaxLen + 1 : \A dir \in {"LONG", "SHORT"} :
         FailOpen(t) => check_di_h4_filter(df_htf, t, dir)
    /\ \A r \in RejectedIndices : ~FailOpen(analysis_df[r].datetime)
    /\ (~use_di_h4_filter \/ df_htf.is_none) => filtered_by_di_h4 = 0

\* C12 witness: with the filter enabled and a df_htf whose only row is later
\* than the candidate and confirms no direction, the candidate was entered.
C12_Witness ==
    /\ use_di_h4_filter
    /\ df_htf = HtfLate
    /\ pc = "sim"
    /\ NoRowUpTo(df_htf, analysis_df[entry_idx].datetime)

\* the range of a returned call selects no candle of df
EmptyRange(call) == DfLen(SelectRange(df, call.start_date, call.end_date)) = 0

\* C13, the step: a call that returns straight from the idle detector is a
\* call over an empty range; it returns the empty list and leaves self.setups
\* and both counters as they were.
C13_EmptyCallStep ==
    (pc = "idle" /\ Len(history') > Len(history))
    => /\ EmptyRange(history'[Len(history')])
       /\ history'[Len(history')].returned = <<>>
       /\ setups' = setups
       /\ filtered_by_di_h4' = filtered_by_di_h4
       /\ be_activated' = be_activated
       /\ pc' = "idle"

\* C13, every call: a call over an empty range returned the empty list, with
\* the counters and the stored setups of the call before it (none and zero on
\* a fresh detector).
C13_EmptyCalls ==
    \A n \in 1 .. Len(history) :
        EmptyRange(history[n])
        => /\ history[n].returned = <<>>
           /\ history[n].trades = <<>>
           /\ history[n].filtered_by_di_h4 =
                (IF n = 1 THEN 0 ELSE history[n - 1].filtered_by_di_h4)
           /\ history[n].be_activated =
                (IF n = 1 THEN 0 ELSE history[n - 1].be_activated)
           /\ history[n].setups_before =
                (IF n = 1 THEN 0 ELSE Len(history[n - 1].returned))
                   + (IF n > 1 /\ EmptyRange(history[n - 1])
                      THEN history[n - 1].setups_before ELSE 0)

\* C13: detect_all_setups over a range that selects zero candles returns an
\* empty list and changes neither self.setups nor the counters, whatever
\* calls were made before on the detector.
C13_EmptyRangeNoEffect ==
    [](C13_EmptyCalls) /\ [][C13_EmptyCallStep]_vars

\* C13 witness: a call over an empty range returned the empty list on a
\* detector that holds a setup and a non-zero counter from the call before.
C13_Witness ==
    /\ pc = "idle"
    /\ Len(history) = 2
    /\ history[1].returned # <<>>
    /\ EmptyRange(history[2])
    /\ history[2].returned = <<>>
    /\ setups # <<>>
    /\ be_activated > 0

\* a displayed quotient is zero
IsZero(q) == q.num = 0

\* a displayed rate (a percentage) is the fraction part / whole
IsFraction(q, part, whole) == q.num * whole = part * 100 * q.den

\* the summary of a list of setups is as the specification requires
SummaryAsSpecified(stored) ==
    LET summary == get_executive_summary(stored)
    IN  /\ summary.computed
        /\ summary.total_setups = Len(stored)
        /\ IF stored = <<>>
           THEN /\ IsZero(summary.win_rate)
                /\ IsZero(summary.avg_pips)
                /\ IsZero(summary.avg_winner)
                /\ IsZero(summary.avg_loser)
           ELSE /\ IsFraction(summary.win_rate, summary.wins, Len(stored))
                /\ summary.wins = 0 => IsZero(summary.avg_winner)
                /\ summary.losses = 0 => IsZero(summary.avg_loser)

\* C14: after a run has returned, the summary of the stored setups has total
\* 0, win rate 0 and all pip averages 0 when there are none, and otherwise a
\* win rate of wins / total and a mean winner (loser) of 0 when there are no
\* wins (losses).
C14_SummaryZeroSafe ==
    (pc = "idle" /\ history # <<>>) => SummaryAsSpecified(setups)

\* the part of C14 about a non-empty list of setups
C14_SummaryOfSetups ==
    (pc = "idle" /\ history # <<>> /\ setups # <<>>) => SummaryAsSpecified(setups)

\* a run has returned setups none of which is a win
C14_NoWinSeen ==
    /\ pc = "idle" /\ history # <<>> /\ setups # <<>>
    /\ get_executive_summary(setups).wins = 0
    /\ Len(setups) >= 2

\* the exit reasons of the four wired exit rules
ExitReasons == {"Stop Loss", "Break Even ATR", "EMA Cross Reversal", "End of Data"}

\* C15: two calls over the same series and range on detectors that differ in
\* use_tp_atr / tp_atr_multiplier only return identical lists and leave
\* identical counters, and every setup has one of the four exit reasons.
C15_TpNotWired ==
    /\ \A a, b \in 1 .. Len(history) :
         (history[a].start_date = history[b].start_date
          /\ history[a].end_date = history[b].end_date)
         => /\ history[a].returned = history[b].returned
            /\ history[a].filtered_by_di_h4 = history[b].filtered_by_di_h4
            /\ history[a].be_activated = history[b].be_activated
    /\ \A n \in 1 .. Len(setups) : setups[n].exit_reason \in ExitReasons

\* C15 witness: the second detector, with use_tp_atr set, has returned a
\* trade during which the price ran tp_atr_multiplier volatility values in
\* its favour, over the range of the first detector's call.
C15_Witness ==
    /\ pc = "idle"
    /\ Len(history) = 2
    /\ ~history[1].use_tp_atr
    /\ history[2].use_tp_atr
    /\ history[1].end_date = history[2].end_date
    /\ \E n \in 1 .. Len(trades) :
         \E j \in trades[n].entry_idx + 1 .. trades[n].result.exit_idx :
            /\ tp_reached(analysis_df[j], trades[n].direction, trades[n].entry_price)
            /\ ~sl_hit(analysis_df[j], trades[n].direction, trades[n].entry_price)

\* the scan evaluates index i in this step (it is not skipped)
Evaluates == pc = "scan" /\ i < DfLen(analysis_df) /\ i > skip_until_idx

\* C16, the step: when the scan evaluates a candle that is a cross, it
\* records the cross and its direction, sets separation_achieved to false,
\* enters nothing and goes on with the next index; and the scan records a
\* cross in no other way.
C16_CrossStep ==
    /\ (Evaluates /\ detect_ema_cross(analysis_df, i) # None)
       => /\ cross_idx' = i
          /\ last_cross_direction' = detect_ema_cross(analysis_df, i)
          /\ ~separation_achieved'
          /\ pc' = "scan" /\ i' = i + 1
          /\ setups' = setups /\ trades' = trades
    /\ (pc = "scan" /\ cross_idx' # cross_idx)
       => /\ Evaluates
          /\ detect_ema_cross(analysis_df, i) # None
          /\ ~separation_achieved'

\* C16, the entries: every trade is entered at an index after the cross
\* recorded last, on a candle that is no cross.
C16_EntriesAfterCross ==
    /\ \A n \in 1 .. Len(trades) :
         /\ trades[n].armed_at >= 1
         /\ trades[n].entry_idx > trades[n].armed_at
         /\ detect_ema_cross(analysis_df, trades[n].entry_idx) = None
    /\ pc = "sim"
       => /\ entry_idx > cross_idx
          /\ cross_idx >= 1
          /\ detect_ema_cross(analysis_df, entry_idx) = None

\* C16: a candle on which the scan detects a cross is never an entry candle
\* (every entry index is greater than the index of the cross recorded last),
\* and detecting a cross, in either direction, sets separation_achieved to
\* false.
C16_CrossNeverEntry ==
    [](C16_EntriesAfterCross) /\ [][C16_CrossStep]_vars

\* C16 witness: after a cross and an achieved separation, the scan has just
\* recorded a further cross on a candle that is separated and touches the
\* fast average; nothing was entered and separation_achieved is false.
C16_Witness ==
    /\ pc = "scan"
    /\ trades = <<>>
    /\ cross_idx >= 2
    /\ i = cross_idx + 1
    /\ ~separation_achieved
    /\ check_separation(analysis_df[cross_idx])
    /\ check_ema_touch(analysis_df[cross_idx])
    /\ \E c \in 1 .. cross_idx - 2 :
         /\ detect_ema_cross(analysis_df, c) # None
         /\ \A x \in c + 1 .. cross_idx - 1 :
              /\ detect_ema_cross(analysis_df, x) = None
              /\ check_separation(analysis_df[x])

\* every entry of the current run: the closed trades and the open one
Entries ==
    {[entry_idx |-> trades[n].entry_idx, entry_price |-> trades[n].entry_price,
      direction |-> trades[n].direction, armed_at |-> trades[n].armed_at] :
        n \in 1 .. Len(trades)}
    \cup (IF pc = "sim"
          THEN {[entry_idx |-> entry_idx, entry_price |-> entry_price,
                 direction |-> direction, armed_at |-> cross_idx]}
          ELSE {})

\* some candle after the cross at c and up to x met the separation
SeparatedSince(c, x) == \E y \in c + 1 .. x : SeparationMet(analysis_df[y])

\* C17: every entry at index i is made in the direction recorded by the
\* latest cross, at the fast average of candle i, on a candle that touches the
\* fast average, after some candle since that cross (up to i) met the
\* separation; and no earlier candle since that cross touched with the
\* separation met and passed the filter. The stored setup carries the
\* direction and the rounded fast average.
C17_EntryPrecondition ==
    /\ \A e \in Entries :
         /\ e.armed_at >= 1 /\ e.armed_at < e.entry_idx
         /\ detect_ema_cross(analysis_df, e.armed_at) = e.direction
         /\ \A x \in e.armed_at + 1 .. e.entry_idx :
              detect_ema_cross(analysis_df, x) = None
         /\ SeparatedSince(e.armed_at, e.entry_idx)
         /\ TouchesFast(analysis_df[e.entry_idx])
         /\ check_di_h4_filter(df_htf, analysis_df[e.entry_idx].datetime, e.direction)
         /\ e.entry_price = analysis_df[e.entry_idx].ema20
         /\ \A x \in e.armed_at + 1 .. e.entry_idx - 1 :
              (SeparatedSince(e.armed_at, x) /\ TouchesFast(analysis_df[x]))
              => ~check_di_h4_filter(df_htf, analysis_df[x].datetime, e.direction)
    /\ \A n \in 1 .. Len(trades) :
         /\ setups[Len(setups) - Len(trades) + n].direction = trades[n].direction
         /\ setups[Len(setups) - Len(trades) + n].entry_price
              = RoundPrice(analysis_df[trades[n].entry_idx].ema20)
         /\ setups[Len(setups) - Len(trades) + n].entry_date
              = analysis_df[trades[n].entry_idx].datetime

\* C17 witness: an entry on a candle that does not itself meet the
\* separation (an earlier one did), after an earlier touching candle was
\* rejected by the filter, at a fast average that differs from the close.
C17_Witness ==
    \E e \in Entries :
        /\ ~SeparationMet(analysis_df[e.entry_idx])
        /\ analysis_df[e.entry_idx].close # e.entry_price
        /\ \E x \in e.armed_at + 1 .. e.entry_idx - 1 :
             TouchesFast(analysis_df[x]) /\ x \in RejectedIndices

\* C18, the step: separation_achieved turns from true to false only in a step
\* in which the scan records a cross or a trade exits, whatever the
\* separation of the candle; it turns from false to true only when the scan
\* evaluates a candle that meets the separation while a direction is recorded.
C18_SeparationStep ==
    /\ (separation_achieved /\ ~separation_achieved')
       => \/ pc = "scan" /\ cross_idx' # cross_idx
          \/ Len(trades') = Len(trades) + 1
    /\ (~separation_achieved /\ separation_achieved')
       => /\ Evaluates
          /\ last_cross_direction # None
          /\ SeparationMet(analysis_df[i])

\* C18: separation_achieved, once true for the current direction, stays true
\* on every later candle until a cross is detected or a trade exits, and it
\* is never true while last_cross_direction is None.
C18_SeparationSticky ==
    [](separation_achieved => last_cross_direction # None)
        /\ [][C18_SeparationStep]_vars

\* C18 witness: the scan has passed a candle below the separation threshold,
\* with no cross on it and no trade, and separation_achieved is still true.
C18_Witness ==
    /\ pc = "scan"
    /\ trades = <<>>
    /\ separation_achieved
    /\ i - 1 > cross_idx
    /\ cross_idx >= 1
    /\ ~SeparationMet(analysis_df[i - 1])

\* the price is back at or through the entry price on the candle
ReturnsToEntry(candle, dir, eprice) ==
    IF dir = "LONG" THEN candle.high >= eprice ELSE candle.low <= eprice

\* the adverse excursion of the candle is be_atr_multiplier volatility values
\* or more, with break-even enabled and a valid volatility value
DeepOn(candle, dir, eprice) ==
    /\ use_be_atr
    /\ atr_valid(candle)
    /\ IF dir = "LONG"
       THEN (eprice - candle.low) * 10 >= be_atr_multiplier_tenths * candle.atr
       ELSE (candle.high - eprice) * 10 >= be_atr_multiplier_tenths * candle.atr

\* a candle strictly after the entry candle and up to j was a deep retracement
FlagSetBy(eidx, dir, eprice, j) ==
    \E y \in eidx + 1 .. j : DeepOn(analysis_df[y], dir, eprice)

\* the break-even rule is due on candle j: the flag is set by then and the
\* price is back at the entry price, on a candle with a valid volatility
\* value that does not breach the stop
BreakEvenDue(eidx, dir, eprice, j) ==
    /\ use_be_atr
    /\ j > eidx
    /\ atr_valid(analysis_df[j])
    /\ FlagSetBy(eidx, dir, eprice, j)
    /\ ReturnsToEntry(analysis_df[j], dir, eprice)
    /\ ~StopBreached(analysis_df[j], dir, eprice)

\* C19, the step: while a trade is simulated the flag, once set, stays set,
\* and it is handed on as set when the trade exits.
C19_FlagStep ==
    /\ (pc = "sim" /\ pc' = "sim" /\ retroceso_profundo) => retroceso_profundo'
    /\ (pc = "sim" /\ retroceso_profundo /\ Len(trades') = Len(trades) + 1)
       => trades'[Len(trades')].flag

\* C19, the states: the flag of the open trade is set exactly when a candle
\* strictly after the entry candle was a deep retracement; a closed trade
\* exited by break-even at the first candle on which the rule was due, at
\* exactly the entry price, with pips 0 and outcome BE; and no trade ran past
\* a candle on which the rule was due.
C19_FlagAndExit ==
    /\ pc = "sim"
       => /\ retroceso_profundo
               <=> FlagSetBy(entry_idx, direction, entry_price, sim_i - 1)
          /\ sim_i = entry_idx => ~retroceso_profundo
          /\ \A j \in entry_idx + 1 .. sim_i - 1 :
               ~BreakEvenDue(entry_idx, direction, entry_price, j)
    /\ \A n \in 1 .. Len(trades) :
         LET t == trades[n]
             k == t.result.exit_idx
         IN  /\ \A j \in t.entry_idx + 1 .. k - 1 :
                  ~BreakEvenDue(t.entry_idx, t.direction, t.entry_price, j)
             /\ t.result.exit_type = "BE"
                  <=> (t.result.exit_type # "EOD"
                       /\ BreakEvenDue(t.entry_idx, t.direction, t.entry_price, k))
             /\ t.result.exit_type = "EOD"
                  => ~BreakEvenDue(t.entry_idx, t.direction, t.entry_price, k)
             /\ t.result.exit_type = "BE"
                  => /\ k > t.entry_idx
                     /\ t.flag
                     /\ t.result.exit_price = t.entry_price
                     /\ t.result.pips = 0
                     /\ t.result.outcome = "BE"
                     /\ setups[Len(setups) - Len(trades) + n].pips = 0
                     /\ setups[Len(setups) - Len(trades) + n].outcome = "BE"
                     /\ setups[Len(setups) - Len(trades) + n].exit_price
                          = RoundPrice(t.entry_price)

\* C19: with break-even enabled the deep-retracement flag is set only on a
\* candle strictly after the entry candle and then stays set for the rest of
\* the trade, and the trade exits by break-even the first time the price is
\* back at or through the entry price once the flag is set (on a candle with
\* a valid volatility value that does not breach the stop), at exactly the
\* entry price, with pips 0 and outcome break-even.
C19_BreakEvenAfterFlag ==
    [](C19_FlagAndExit) /\ [][C19_FlagStep]_vars

\* C19 witness: a break-even exit on a candle later than the one that set the
\* flag, the flag having been carried over a candle that did not reach the
\* entry price.
C19_Witness ==
    \E n \in 1 .. Len(trades) :
        LET t == trades[n]
            k == t.result.exit_idx
        IN  /\ t.result.exit_type = "BE"
            /\ FlagSetBy(t.entry_idx, t.direction, t.entry_price, k - 1)
            /\ ~ReturnsToEntry(analysis_df[k - 1], t.direction, t.entry_price)

\* the volatility value of the candle is undefined or not positive
InvalidAtr(candle) == candle.atr_nan \/ candle.atr <= 0

\* the candle shows a cross against the direction of the trade
ReversalOn(d, idx, dir) ==
    IF dir = "LONG" THEN BearishFlip(d, idx) ELSE BullishFlip(d, idx)

\* the step closes the open trade on candle sim_i with the given exit type,
\* the flag left as it was
ClosesWith(type) ==
    /\ Len(trades') = Len(trades) + 1
    /\ trades'[Len(trades')].result.exit_type = type
    /\ trades'[Len(trades')].result.exit_idx = sim_i
    /\ trades'[Len(trades')].flag = retroceso_profundo
    /\ be_activated' = be_activated

\* C20, the step over a candle after the entry candle whose volatility value
\* is invalid: the stop and then the reversal decide as on any candle, and
\* otherwise the trade goes on to the next candle with the flag unchanged and
\* no break-even exit.
C20_SkipStep ==
    (/\ pc = "sim" /\ sim_i < DfLen(analysis_df) /\ sim_i > entry_idx
     /\ InvalidAtr(analysis_df[sim_i]) /\ vars' # vars)
    => IF StopBreached(analysis_df[sim_i], direction, entry_price)
       THEN ClosesWith("SL")
       ELSE IF ReversalOn(analysis_df, sim_i, direction)
       THEN ClosesWith("CROSS")
       ELSE /\ pc' = "sim"
            /\ sim_i' = sim_i + 1
            /\ retroceso_profundo' = retroceso_profundo
            /\ be_activated' = be_activated
            /\ trades' = trades

\* C20, the step over the candle that follows one with an invalid volatility
\* value: the break-even rule is evaluated on it again.
C20_ResumeStep ==
    (/\ pc = "sim" /\ sim_i < DfLen(analysis_df) /\ sim_i - 1 > entry_idx
     /\ InvalidAtr(analysis_df[sim_i - 1]) /\ ~InvalidAtr(analysis_df[sim_i])
     /\ use_be_atr /\ vars' # vars
     /\ ~StopBreached(analysis_df[sim_i], direction, entry_price))
    => /\ (/\ retroceso_profundo \/ DeepOn(analysis_df[sim_i], direction, entry_price)
           /\ ReturnsToEntry(analysis_df[sim_i], direction, entry_price))
          => /\ Len(trades') = Len(trades) + 1
             /\ trades'[Len(trades')].result.exit_type = "BE"
       /\ (pc' = "sim" /\ DeepOn(analysis_df[sim_i], direction, entry_price))
          => retroceso_profundo'

\* C20, the states: no trade exits by break-even on a candle whose volatility
\* value is invalid.
C20_NoBreakEvenOnInvalidAtr ==
    \A n \in 1 .. Len(trades) :
        trades[n].result.exit_type = "BE"
            => ~InvalidAtr(analysis_df[trades[n].result.exit_idx])

\* C20: on a candle whose volatility value is not positive or is undefined the
\* break-even rule is skipped for that candle only (the flag is not updated
\* and there is no break-even exit, even with the flag set) while the stop
\* and the reversal checks are unaffected, and the rule is evaluated again on
\* the next candle.
C20_InvalidAtrSkipsBreakEven ==
    [](C20_NoBreakEvenOnInvalidAtr) /\ [][C20_SkipStep /\ C20_ResumeStep]_vars

\* C20 witness: with break-even enabled and the flag set, the trade has gone
\* past a candle with an invalid volatility value on which the price was back
\* at the entry price.
C20_Witness ==
    /\ pc = "sim" /\ use_be_atr /\ retroceso_profundo
    /\ sim_i - 1 > entry_idx
    /\ InvalidAtr(analysis_df[sim_i - 1])
    /\ ReturnsToEntry(analysis_df[sim_i - 1], direction, entry_price)
    /\ FlagSetBy(entry_idx, direction, entry_price, sim_i - 2)

\* a break-even exit on the candle right after one with an invalid volatility
\* value
C20_ResumedSeen ==
    \E n \in 1 .. Len(trades) :
        /\ trades[n].result.exit_type = "BE"
        /\ trades[n].result.exit_idx - 1 > trades[n].entry_idx
        /\ InvalidAtr(analysis_df[trades[n].result.exit_idx - 1])

\* the setup stored for trade n of the current run
StoredOf(n) == setups[Len(setups) - Len(trades) + n]

\* the candle shows a cross in the direction of the trade
SameDirectionCrossOn(d, idx, dir) ==
    IF dir = "LONG" THEN BullishFlip(d, idx) ELSE BearishFlip(d, idx)

\* C21: a trade exits by crossover reversal only on a candle strictly after
\* its entry candle that shows a cross opposite to its direction, on which
\* neither the stop-loss nor the break-even rule fires; the exit price is the
\* close of that candle and the outcome is WIN when the signed move to the
\* close is positive and LOSS otherwise, a move of zero included. No trade
\* runs past a candle after its entry that shows an opposite cross, and a
\* cross in the direction of the trade is never the reason of a reversal exit.
C21_ReversalExit ==
    \A n \in 1 .. Len(trades) :
        LET t == trades[n]
            k == t.result.exit_idx
        IN  /\ t.result.exit_type = "CROSS"
               => /\ k > t.entry_idx
                  /\ ReversalOn(analysis_df, k, t.direction)
                  /\ ~SameDirectionCrossOn(analysis_df, k, t.direction)
                  /\ ~StopBreached(analysis_df[k], t.direction, t.entry_price)
                  /\ ~BreakEvenDue(t.entry_idx, t.direction, t.entry_price, k)
                  /\ t.result.exit_price = analysis_df[k].close
                  /\ t.result.outcome = (IF SignedMove(t) > 0 THEN "WIN" ELSE "LOSS")
                  /\ StoredOf(n).exit_price = RoundPrice(analysis_df[k].close)
                  /\ StoredOf(n).exit_date = analysis_df[k].datetime
                  /\ StoredOf(n).outcome = t.result.outcome
                  /\ StoredOf(n).exit_reason = "EMA Cross Reversal"
            /\ \A j \in t.entry_idx + 1 .. k :
                 ReversalOn(analysis_df, j, t.direction)
                 => j = k /\ t.result.exit_type \in {"SL", "BE", "CROSS"}

\* C21 witness: a reversal exit at a close equal to the entry price, labelled
\* a loss.
C21_Witness ==
    \E n \in 1 .. Len(trades) :
        /\ trades[n].result.exit_type = "CROSS"
        /\ SignedMove(trades[n]) = 0
        /\ trades[n].result.pips = 0
        /\ trades[n].result.outcome = "LOSS"

\* a trade that went over a candle showing a cross in its own direction
C21_SameDirectionSeen ==
    \E n \in 1 .. Len(trades) :
        \E j \in trades[n].entry_idx + 1 .. trades[n].result.exit_idx :
            /\ SameDirectionCrossOn(analysis_df, j, trades[n].direction)
            /\ trades[n].result.exit_type = "EOD"

\* some exit rule fires on candle j of a trade entered at eidx
ExitRuleFires(eidx, dir, eprice, j) ==
    \/ StopBreached(analysis_df[j], dir, eprice)
    \/ BreakEvenDue(eidx, dir, eprice, j)
    \/ j > eidx /\ ReversalOn(analysis_df, j, dir)

\* no exit rule fires on any candle from the entry candle to the last one
RunsToTheEnd(eidx, dir, eprice) ==
    \A j \in eidx .. LastIdx : ~ExitRuleFires(eidx, dir, eprice, j)

\* C22, the states: a closed trade is an end-of-data exit exactly when no exit
\* rule fires from its entry candle to the last candle; it is then closed at
\* the close of the last candle with the reason End of Data and the outcome
\* by the sign of the move, it is the last trade of the run and no entry
\* follows it; and the run has stored one setup for each closed trade.
C22_EndOfDataState ==
    /\ Len(setups) = run.setups_before + Len(trades)
    /\ \A n \in 1 .. Len(trades) :
         LET t == trades[n]
         IN  /\ t.result.exit_type = "EOD"
                  <=> RunsToTheEnd(t.entry_idx, t.direction, t.entry_price)
             /\ t.result.exit_type = "EOD"
                  => /\ t.result.exit_idx = LastIdx
                     /\ t.result.exit_price = analysis_df[LastIdx].close
                     /\ t.result.exit_date = analysis_df[LastIdx].datetime
                     /\ t.result.exit_reason = "End of Data"
                     /\ t.result.outcome = (IF SignedMove(t) > 0 THEN "WIN" ELSE "LOSS")
                     /\ StoredOf(n).exit_price = RoundPrice(analysis_df[LastIdx].close)
                     /\ StoredOf(n).exit_reason = "End of Data"
                     /\ StoredOf(n).outcome = t.result.outcome
                     /\ StoredOf(n).entry_date = analysis_df[t.entry_idx].datetime
                     /\ n = Len(trades)
                     /\ pc # "sim"
    /\ (pc = "sim" /\ sim_i >= DfLen(analysis_df))
       => RunsToTheEnd(entry_idx, direction, entry_price)

\* C22, the step: the stored setups change only when a trade exits, and then
\* by one appended setup, that of the entry being simulated; an accepted
\* entry stores nothing until its trade exits; and when the trade was at the
\* end of the data the exit is an end-of-data exit.
C22_RecordStep ==
    /\ setups' # setups
       => /\ pc = "sim" /\ pc' = "scan"
          /\ Len(setups') = Len(setups) + 1
          /\ SubSeq(setups', 1, Len(setups)) = setups
          /\ setups'[Len(setups')].entry_date = analysis_df[entry_idx].datetime
          /\ setups'[Len(setups')].setup_id = Len(setups')
    /\ (pc = "sim" /\ pc' # "sim") => Len(setups') = Len(setups) + 1
    /\ (pc = "sim" /\ sim_i >= DfLen(analysis_df) /\ vars' # vars)
       => /\ Len(trades') = Len(trades) + 1
          /\ trades'[Len(trades')].result.exit_type = "EOD"

\* C22: a trade on which no exit rule fires from its entry candle to the last
\* candle of the range is closed at the close of the last candle, with the
\* reason end of data and the outcome by the sign of the move; its setup is
\* stored and no further entry is made in that run; and whatever the exit,
\* exactly one setup is stored for each accepted entry.
C22_EndOfData ==
    [](C22_EndOfDataState) /\ [][C22_RecordStep]_vars

\* C22 witness: the run has returned with an end-of-data exit after whose
\* entry a later candle touched the fast average again and was not entered.
C22_Witness ==
    /\ RunDone
    /\ trades # <<>>
    /\ trades[Len(trades)].result.exit_type = "EOD"
    /\ Len(history[1].returned) = Len(trades)
    /\ \E j \in trades[Len(trades)].entry_idx + 1 .. LastIdx :
         /\ TouchesFast(analysis_df[j])
         /\ detect_ema_cross(analysis_df, j) = None

\* the filter is enabled with an auxiliary series that has a candle at or
\* before time t
Governed(t) == use_di_h4_filter /\ ~df_htf.is_none /\ ~NoRowUpTo(df_htf, t)

\* the auxiliary candle with the greatest timestamp <= t
GoverningRow(htf, t) ==
    LET upto == {k \in 1 .. Len(htf.rows) : htf.rows[k].datetime <= t}
    IN  htf.rows[CHOOSE k \in upto :
                    \A x \in upto : htf.rows[x].datetime <= htf.rows[k].datetime]

\* the auxiliary candle confirms the direction
Confirms(row, dir) ==
    IF dir = "LONG" THEN row.plus_di - row.minus_di >= di_h4_min_diff
    ELSE row.minus_di - row.plus_di >= di_h4_min_diff

\* the auxiliary series without its candles later than t
RowsUpTo(htf, t) ==
    [is_none |-> htf.is_none,
     rows |-> SelectSeq(htf.rows, LAMBDA r : r.datetime <= t)]

\* C23, the function: enabled with an auxiliary series, the filter permits a
\* candidate at time t exactly when the auxiliary candle with the greatest
\* timestamp <= t confirms its direction, and its answer is the same with the
\* later auxiliary candles removed.
C23_FilterDecision ==
    \A t \in 0 .. MaxLen + 1 : \A dir \in {"LONG", "SHORT"} :
        /\ Governed(t)
           => (check_di_h4_filter(df_htf, t, dir)
                 <=> Confirms(GoverningRow(df_htf, t), dir))
        /\ check_di_h4_filter(df_htf, t, dir)
             = check_di_h4_filter(RowsUpTo(df_htf, t), t, dir)

\* C23, the step: a candidate is rejected only when the governing auxiliary
\* candle does not confirm the recorded direction, and entered, under the
\* filter, only when it does; the rejection leaves last_cross_direction and
\* skip_until_idx as they are and separation_achieved as the evaluation of the
\* candidate left it, and the scan goes on with the next index.
C23_FilterStep ==
    /\ filtered_by_di_h4' # filtered_by_di_h4
       => /\ Governed(analysis_df[i].datetime)
          /\ ~Confirms(GoverningRow(df_htf, analysis_df[i].datetime),
                       last_cross_direction)
          /\ last_cross_direction' = last_cross_direction
          /\ separation_achieved'
               = (separation_achieved \/ SeparationMet(analysis_df[i]))
          /\ skip_until_idx' = skip_until_idx
          /\ i' = i + 1
          /\ pc' = pc
    /\ (pc = "scan" /\ pc' = "sim" /\ Governed(analysis_df[i].datetime))
       => /\ Confirms(GoverningRow(df_htf, analysis_df[i].datetime),
                      last_cross_direction)
          /\ direction' = last_cross_direction
          /\ last_cross_direction' = last_cross_direction

\* C23: enabled with an auxiliary series, the directional filter decides from
\* the auxiliary candle with the greatest timestamp <= the candidate's: a LONG
\* candidate passes iff plus_di - minus_di >= the threshold, a SHORT one iff
\* minus_di - plus_di >= the threshold; no later auxiliary candle is read, and
\* the filter changes neither last_cross_direction nor separation_achieved
\* nor the position of the scan.
C23_DirectionalFilter ==
    [](C23_FilterDecision) /\ [][C23_FilterStep]_vars

\* C23 witness: a candidate entered on the confirmation of its governing
\* auxiliary candle (exactly at the threshold) while a later auxiliary candle
\* does not confirm its direction.
C23_Witness ==
    /\ pc = "sim"
    /\ Governed(analysis_df[entry_idx].datetime)
    /\ LET row == GoverningRow(df_htf, analysis_df[entry_idx].datetime)
       IN  /\ Confirms(row, direction)
           /\ Abs(row.plus_di - row.minus_di) = di_h4_min_diff
    /\ \E k \in 1 .. Len(df_htf.rows) :
         /\ df_htf.rows[k].datetime > analysis_df[entry_idx].datetime
         /\ ~Confirms(df_htf.rows[k], direction)

\* a candidate rejected because its governing auxiliary candle, the latest
\* one of the series, does not confirm its direction
C23_RejectionSeen ==
    \E r \in RejectedIndices :
        GoverningRow(df_htf, analysis_df[r].datetime) = df_htf.rows[Len(df_htf.rows)]

\* C24 as stated: the candles_held of every setup equals the exit index minus
\* the entry index of its trade, whatever the exit reason.
C24_CandlesHeld ==
    \A n \in 1 .. Len(trades) :
        /\ trades[n].result.candles_held
             = trades[n].result.exit_idx - trades[n].entry_idx
        /\ StoredOf(n).candles_held
             = trades[n].result.exit_idx - trades[n].entry_idx

\* the part of C24 that holds: on a stop-loss, break-even or reversal exit the
\* candles_held is the exit index minus the entry index.
C24_CandlesHeldOnRuleExit ==
    \A n \in 1 .. Len(trades) :
        trades[n].result.exit_type \in {"SL", "BE", "CROSS"}
        => StoredOf(n).candles_held
             = trades[n].result.exit_idx - trades[n].entry_idx

\* what the end-of-data exit stores: one more than the exit index minus the
\* entry index
C24_CandlesHeldAtEndOfData ==
    \A n \in 1 .. Len(trades) :
        trades[n].result.exit_type = "EOD"
        => StoredOf(n).candles_held
             = trades[n].result.exit_idx - trades[n].entry_idx + 1

\* each of the three rule exits has been seen away from the entry candle
C24_RuleExitsSeen ==
    \E n \in 1 .. Len(trades) :
        /\ trades[n].result.exit_type \in {"BE", "CROSS"}
        /\ StoredOf(n).candles_held >= 2

\* index x lies within the span of closed trade n
InSpan(n, x) == trades[n].entry_idx <= x /\ x <= trades[n].result.exit_idx

\* the cross at index x is the opposite cross that closed trade n
ClosingCross(n, x) ==
    /\ trades[n].result.exit_type = "CROSS"
    /\ trades[n].result.exit_idx = x

\* C25, the states: the index at which last_cross_direction was last recorded
\* lies within the span of no closed trade, unless it is the exit index of a
\* trade closed by reversal, and then the recorded direction is opposite to
\* that trade's; the same holds of the cross that armed each trade; and after
\* a stop-loss or break-even exit no direction is recorded until the scan
\* meets a cross at a later index.
C25_SpanCrossesState ==
    /\ \A n \in 1 .. Len(trades) :
         /\ InSpan(n, cross_idx)
            => /\ ClosingCross(n, cross_idx)
               /\ n = Len(trades) => last_cross_direction = Opposite(trades[n].direction)
         /\ \A m \in 1 .. Len(trades) :
              InSpan(n, trades[m].armed_at)
              => /\ ClosingCross(n, trades[m].armed_at)
                 /\ trades[m].direction = Opposite(trades[n].direction)
    /\ (/\ trades # <<>>
        /\ trades[Len(trades)].result.exit_type \in {"SL", "BE"}
        /\ cross_idx <= trades[Len(trades)].result.exit_idx)
       => last_cross_direction = None

\* C25, the step: last_cross_direction changes to a direction only on a cross
\* the scan detects at its index, beyond the span of every closed trade, or on
\* the reversal that closes the open trade.
C25_RecordStep ==
    (last_cross_direction' # last_cross_direction /\ last_cross_direction' # None)
    => \/ /\ pc = "scan" /\ pc' = "scan"
          /\ detect_ema_cross(analysis_df, i) = last_cross_direction'
          /\ \A n \in 1 .. Len(trades) : i > trades[n].result.exit_idx
       \/ /\ pc = "sim" /\ Len(trades') = Len(trades) + 1
          /\ trades'[Len(trades')].result.exit_type = "CROSS"
          /\ last_cross_direction' = Opposite(direction)
          /\ detect_ema_cross(analysis_df, trades'[Len(trades')].result.exit_idx)
               = Opposite(direction)

\* C25: a cross at an index within the span from the entry index to the exit
\* index of a trade is never recorded as last_cross_direction, unless it is
\* the opposite cross that closed the trade; a cross on the candle of a
\* stop-loss or break-even exit is discarded and no direction is recorded
\* until a later cross.
C25_CrossesInsideTrade ==
    [](C25_SpanCrossesState) /\ [][C25_RecordStep]_vars

\* C25 witness: a trade closed by stop-loss or break-even on a candle that
\* shows a cross; the scan has since passed a separated, touching candle with
\* no direction recorded.
C25_Witness ==
    /\ trades # <<>>
    /\ LET t == trades[Len(trades)]
           k == t.result.exit_idx
       IN  /\ t.result.exit_type \in {"SL", "BE"}
           /\ detect_ema_cross(analysis_df, k) # None
           /\ pc = "scan" /\ i = k + 2
           /\ last_cross_direction = None
           /\ SeparationMet(analysis_df[k + 1])
           /\ TouchesFast(analysis_df[k + 1])

\* a trade that ran over a cross in its own direction and the scan is past it
C25_InnerCrossSeen ==
    /\ pc = "idle"
    /\ \E n \in 1 .. Len(trades) :
         \E x \in trades[n].entry_idx + 1 .. trades[n].result.exit_idx :
             /\ detect_ema_cross(analysis_df, x) = trades[n].direction
             /\ cross_idx < trades[n].entry_idx

\* C26: in every setup the exit index is >= the entry index and the exit
\* timestamp is >= the entry timestamp; a break-even or reversal exit is
\* strictly after the entry candle, in index and in timestamp; an exit on the
\* entry candle itself is a stop-loss (or the end of the data).
C26_ExitNotBeforeEntry ==
    \A n \in 1 .. Len(trades) :
        LET t == trades[n]
        IN  /\ t.result.exit_idx >= t.entry_idx
            /\ t.result.exit_idx <= LastIdx
            /\ StoredOf(n).entry_date = analysis_df[t.entry_idx].datetime
            /\ StoredOf(n).exit_date = analysis_df[t.result.exit_idx].datetime
            /\ StoredOf(n).exit_date >= StoredOf(n).entry_date
            /\ t.result.exit_type \in {"BE", "CROSS"}
               => /\ t.result.exit_idx > t.entry_idx
                  /\ StoredOf(n).exit_date > StoredOf(n).entry_date
            /\ t.result.exit_idx = t.entry_idx
               => t.result.exit_type \in {"SL", "EOD"}

\* C26 witness: a LONG trade stopped out on its own entry candle, so that the
\* setup has the same entry and exit timestamp, on a candle on which the
\* price was also back at the entry price after a deep retracement.
C26_Witness ==
    \E n \in 1 .. Len(trades) :
        LET t == trades[n]
        IN  /\ t.direction = "LONG"
            /\ t.result.exit_type = "SL"
            /\ t.result.exit_idx = t.entry_idx
            /\ StoredOf(n).exit_date = StoredOf(n).entry_date
            /\ use_be_atr
            /\ DeepOn(analysis_df[t.entry_idx], t.direction, t.entry_price)
            /\ ReturnsToEntry(analysis_df[t.entry_idx], t.direction, t.entry_price)

\* a trade whose entry candle met the break-even conditions without breaching
\* the stop, and that went on to the next candle
C26_EntryCandleSpared ==
    \E n \in 1 .. Len(trades) :
        LET t == trades[n]
        IN  /\ use_be_atr
            /\ DeepOn(analysis_df[t.entry_idx], t.direction, t.entry_price)
            /\ ReturnsToEntry(analysis_df[t.entry_idx], t.direction, t.entry_price)
            /\ t.result.exit_idx > t.entry_idx

\* the labels of stored setup r of trade t, but for the pips of a win
LabelsAgree(t, r) ==
    /\ r.outcome \in {"WIN", "LOSS", "BE"}
    /\ r.outcome = "BE" <=> r.exit_reason = "Break Even ATR"
    /\ r.outcome = "BE" => (r.pips = 0 /\ r.exit_price = r.entry_price)
    /\ r.exit_reason = "Stop Loss" => r.outcome = "LOSS"
    /\ r.outcome = "LOSS" => r.pips <= 0
    /\ ~use_be_atr => r.outcome # "BE"
    /\ r.outcome = t.result.outcome /\ r.pips = t.result.pips

\* C27 as stated: in every setup the outcome is BE iff the exit reason is
\* break-even (then pips = 0 and the exit price is the entry price), a
\* stop-loss exit is a loss, a win has pips > 0 and a loss has pips <= 0, and
\* with break-even disabled no setup has the outcome BE.
C27_OutcomeConsistent ==
    \A n \in 1 .. Len(trades) :
        /\ LabelsAgree(trades[n], StoredOf(n))
        /\ StoredOf(n).outcome = "WIN" => StoredOf(n).pips > 0

\* C27 amended: as stated, except that a win has an unrounded signed move > 0
\* and therefore stored pips (rounded to one decimal) >= 0; a loss has an
\* unrounded signed move <= 0.
C27_OutcomeByUnroundedMove ==
    \A n \in 1 .. Len(trades) :
        /\ LabelsAgree(trades[n], StoredOf(n))
        /\ StoredOf(n).outcome = "WIN"
             => (SignedMove(trades[n]) > 0 /\ StoredOf(n).pips >= 0)
        /\ StoredOf(n).outcome = "LOSS" => SignedMove(trades[n]) <= 0

\* C27 witness: a setup labelled WIN whose stored pips are 0.0, the move being
\* positive and less than 0.05 pip.
C27_Witness ==
    \E n \in 1 .. Len(trades) :
        /\ StoredOf(n).outcome = "WIN"
        /\ StoredOf(n).pips = 0
        /\ SignedMove(trades[n]) > 0

\* a setup labelled LOSS with pips 0.0 has been stored
C27_ZeroLossSeen ==
    \E n \in 1 .. Len(trades) :
        StoredOf(n).outcome = "LOSS" /\ StoredOf(n).pips = 0

\* a setup labelled BE has been stored
C27_BreakEvenSeen ==
    \E n \in 1 .. Len(trades) : StoredOf(n).outcome = "BE"

\* the setups are numbered 1..n in list order with strictly increasing entry
\* timestamps, and count break-even outcomes
WellNumbered(list, count) ==
    /\ \A n \in 1 .. Len(list) : list[n].setup_id = n
    /\ \A n \in 1 .. Len(list) - 1 : list[n].entry_date < list[n + 1].entry_date
    /\ count = Cardinality({n \in 1 .. Len(list) : list[n].outcome = "BE"})

\* C28: in the list returned by the run on a fresh detector the setup ids are
\* exactly 1..n in list order, the entry timestamps are strictly increasing
\* and the break-even activation counter equals the number of setups whose
\* outcome is BE; the same holds of self.setups throughout the run.
C28_ReturnedListNumbered ==
    /\ WellNumbered(setups, be_activated)
    /\ \A h \in 1 .. Len(history) :
         WellNumbered(history[h].returned, history[h].be_activated)
    /\ RunDone => history[1].returned = setups

\* C28 witness: the run, with break-even enabled, has returned two setups.
C28_Witness ==
    /\ RunDone
    /\ use_be_atr
    /\ Len(history[1].returned) = 2

\* a run has returned a list with a break-even setup, counted once
C28_BreakEvenCounted ==
    /\ RunDone
    /\ history[1].be_activated = 1
    /\ \E n \in 1 .. Len(history[1].returned) : history[1].returned[n].outcome = "BE"

\* C29, the step: within a run the scan index moves forward by exactly one on
\* every iteration of the scan (an accepted entry holds it while the trade is
\* simulated, and the exit of the trade then moves it on by one), the index
\* of the simulation moves forward by exactly one per candle, and
\* skip_until_idx never decreases.
C29_ForwardStep ==
    (pc # "idle" /\ vars' # vars)
    => /\ skip_until_idx' >= skip_until_idx
       /\ analysis_df' = analysis_df
       /\ pc = "scan"
          => \/ pc' = "scan" /\ i < DfLen(analysis_df) /\ i' = i + 1
             \/ /\ pc' = "sim" /\ i' = i /\ i > skip_until_idx
                /\ entry_idx' = i /\ sim_i' = i
             \/ pc' = "idle" /\ i >= DfLen(analysis_df) /\ i' = i
       /\ pc = "sim"
          => \/ /\ pc' = "sim" /\ i' = i /\ entry_idx' = entry_idx
                /\ sim_i' = sim_i + 1 /\ sim_i < DfLen(analysis_df)
             \/ pc' = "scan" /\ i' = i + 1 /\ skip_until_idx' >= i

\* C29, the states: the indices stay within the range, the candle being
\* simulated is the one the scan stands on, beyond every exited trade, and
\* the trades of the run were entered at increasing indices, each after the
\* exit of the one before.
C29_ForwardState ==
    /\ pc # "idle" => (1 <= i /\ i <= DfLen(analysis_df) + 1)
    /\ skip_until_idx >= 0 /\ skip_until_idx <= IF LastIdx > 0 THEN LastIdx ELSE 0
    /\ pc = "sim" => /\ i = entry_idx /\ i > skip_until_idx
                     /\ entry_idx <= sim_i /\ sim_i <= DfLen(analysis_df)
    /\ \A n \in 1 .. Len(trades) - 1 :
         trades[n + 1].entry_idx > trades[n].result.exit_idx

\* C29: a detection run over a finite series terminates, and the scan is
\* forward-only: each candle index of the range is evaluated at most once, in
\* increasing order, and skip_until_idx never decreases during the run.
C29_TerminatesForwardOnly ==
    /\ <>(pc = "idle" /\ Len(history) = 1)
    /\ [](C29_ForwardState)
    /\ [][C29_ForwardStep]_vars

\* C29 witness: the run over the longest series has returned after a trade
\* that exited on a later candle than it entered, so that an index was
\* skipped.
C29_Witness ==
    /\ RunDone
    /\ DfLen(analysis_df) = MaxLenConfig
    /\ trades # <<>>
    /\ skip_until_idx > trades[1].entry_idx

====
